---------------------------- MODULE Spec2Model ----------------------------
(***************************************************************************)
(* Model of the ARGA lists-sync reload pipeline (lists.ts: getAccessToken, *)
(* fetchSpeciesListId, uploadFileContent, ingestFile,                      *)
(* waitForIngestionCompletion, reloadList), of the /reload chat command    *)
(* that drives it (slack.ts), and of the webhook endpoint and push handler *)
(* (server.ts) with the diff of the mapping they send.                     *)
(*                                                                         *)
(* One behaviour is one trigger.  Every await of the code is a step        *)
(* boundary; the answers of the token endpoint, of the list-management     *)
(* API, of the source-control host and of the chat platform are chosen by  *)
(* the environment.                                                        *)
(*                                                                         *)
(*   Spec      reloadList called by the push handler for an added file, or *)
(*             a /reload command                                           *)
(*   SpecRun   a reloadList run under the fairness of the runtime          *)
(*   SpecToken getAccessToken on its own                                   *)
(*   SpecPush  one webhook delivery, from the request to the notification  *)
(*   SpecDiff  the reload of drs.json and its diff, over pairs of mappings *)
(***************************************************************************)
EXTENDS Integers, Sequences, FiniteSets, TLC

(***************************************************************************)
(* Program constants                                                       *)
(***************************************************************************)
PROGRESS_CHECK_INTERVAL == 5000

MAX_PROGRESS_ATTEMPTS == 120

MAX_WAIT_TIME_SECONDS == MAX_PROGRESS_ATTEMPTS * (PROGRESS_CHECK_INTERVAL \div 1000)

bufferMs == 5 * 60 * 1000

(***************************************************************************)
(* Bounds of the model                                                     *)
(***************************************************************************)
\* the token endpoint refuses at most this many requests in one behaviour
MaxAuthFailures == 1

\* the clock jumps at most this many times before polling starts (during
\* polling it is advanced by the poll timer)
MaxTicks == 1

\* size of one clock jump, in milliseconds
TickMs == 60000

\* getAccessToken on its own contacts the token endpoint at most this often
MaxTokenRequests == 3

\* a partition compared by the diff has at most this many entries
MaxSectionLen == 2

\* the most push deliveries handled concurrently
MaxDeliveries == 2

\* the most tokens in the text of a /clean command
MaxCleanLen == 3

\* the most entries in the listing of a folder
MaxListing == 3

(***************************************************************************)
(* Input domains                                                           *)
(***************************************************************************)
\* token lifetimes (seconds) the token endpoint may be configured with
TokenLifetimes == {240, 600, 3600}

\* age (ms) of a token left in the cache by an earlier run
InitialTokenAges == {0}

AccessTokens == {"tokA"}

\* expires_at (ms) of a token cached by an earlier call, seen from now = 0:
\* 4, 5, 6 and 10 minutes ahead
CachedExpiries == {240000, 300000, 360000, 600000}

\* a token cached by an earlier call
EarlierTokens ==
  {[set |-> TRUE, access_token |-> "tok0", expires_at |-> e] : e \in CachedExpiries}

TokenFailures == {[status |-> 401, body |-> "invalid_client"]}

\* folder / list names handed to reloadList; toString is a member of
\* Object.prototype, the others are ordinary names
ListNames == {"Bar", "Foo", "Nope", "Zed", "toString"}

ObjectPrototypeKeys == {"toString"}

EmptyDrMap == [prod |-> << >>, test |-> << >>]

\* a partition is the sequence of its entries <<name, value>>, in the
\* insertion order of the parsed drs.json
SampleDrMap ==
  [prod |-> << <<"Foo", "dr1">>, <<"Zed", "">> >>,
   test |-> << <<"Bar", "dr2">>, <<"Baz", "dr3">> >>]

OtherDrMap ==
  [prod |-> << <<"Bar", "dr5">> >>,
   test |-> << >>]

\* the mappings that may be active when the trigger arrives
DrMaps == {SampleDrMap, OtherDrMap}

MetadataResponses == {[status |-> 200, id |-> "sl1"], [status |-> 404, id |-> ""]}

NullList == [present |-> FALSE, items |-> << >>]

ListOf(items) == [present |-> TRUE, items |-> items]

ValidationChoices == {NullList, ListOf(<< >>), ListOf(<<"e1">>), ListOf(<<"e1", "e2">>)}

UploadResponses ==
  {[status |-> s, validationErrors |-> v, localFile |-> "up1"] :
     s \in {200, 400}, v \in ValidationChoices}

IngestResponses == {[status |-> 200, body |-> ""], [status |-> 500, body |-> "busy"]}

ProgressResponses ==
  {[status |-> 200, completed |-> TRUE],
   [status |-> 200, completed |-> FALSE],
   [status |-> 503, completed |-> FALSE]}

NoResponse == [status |-> 0]

\* the token endpoint's success answer (OAuth2TokenResponse)
TokenData(a, ttl) == [status |-> 200, access_token |-> a, expires_in |-> ttl]

NoWebhookRequest == [signature |-> "none", name |-> "", ref |-> << >>, commits |-> << >>]

\* no progress message has been posted
NoMessage == [channel |-> "", ts |-> ""]

\* what say() resolves to: the channel and the timestamp of the posted message
SayResponses == {[channel |-> "C1", ts |-> "1700000000.0001"]}

\* command.text of a /reload command: a sequence of blanks and words
CommandTexts ==
  {<< >>, <<" ", " ">>, <<"Foo">>, <<" ", "Bar", " ">>, <<"Nope">>, <<"Zed", " ">>,
   <<"toString">>, <<"Foo", " ", "Bar">>}

\* what findLatestFileForList resolves to
LatestFileChoices ==
  {[found |-> FALSE, name |-> ""], [found |-> TRUE, name |-> "2025-01-02.csv"]}

\* what getFileContent resolves to
ContentChoices ==
  {[isNull |-> TRUE, text |-> ""], [isNull |-> FALSE, text |-> ""],
   [isNull |-> FALSE, text |-> "id,name\n1,x"]}

\* the partitions the diff is computed over: entries with distinct keys,
\* ordinary names and a member of Object.prototype
DiffKeys == {"Bar", "Baz", "Foo", "toString"}

DiffValues == {"A", "B"}

DiffSections ==
  {sec \in UNION {[1..n -> DiffKeys \X DiffValues] : n \in 0..MaxSectionLen} :
     \A i, j \in DOMAIN sec : i # j => sec[i][1] # sec[j][1]}

DiffDrMaps ==
  {[prod |-> p, test |-> t] :
     p \in DiffSections, t \in {<< <<"Foo", "A">> >>, << <<"Foo", "B">> >>}}

\* a verified push to main whose only change is a file added to the folder
\* of the list
FilePush(list) ==
  [signature |-> "valid", name |-> "push", ref |-> <<"refs/heads/", "main">>,
   commits |-> << [added |-> << [dirs |-> <<"imported_GoogleSheets", list>>,
                                 name |-> <<"2025-01-01", "csv">>] >>,
                   modified |-> << >>] >>]

\* a verified push to main whose only change is drs.json
DrsPush ==
  [signature |-> "valid", name |-> "push", ref |-> <<"refs/heads/", "main">>,
   commits |-> << [added |-> << >>,
                   modified |-> << [dirs |-> << >>, name |-> <<"drs", "json">>] >>] >>]

\* paths named by the commits of a push
FooCsv == [dirs |-> <<"imported_GoogleSheets", "Foo">>, name |-> <<"2025-01-01", "csv">>]

FooCsvGz ==
  [dirs |-> <<"imported_GoogleSheets", "Foo">>, name |-> <<"2025-01-02", "csv", "gz">>]

RootCsv == [dirs |-> <<"imported_GoogleSheets">>, name |-> <<"bar", "csv">>]

OtherCsv == [dirs |-> <<"other_GoogleSheets", "Foo">>, name |-> <<"bar", "csv">>]

AddedPaths == {FooCsv, FooCsvGz, RootCsv, OtherCsv}

\* one commit of a push: at most one added path, drs.json modified or not
Commits ==
  {[added |-> a, modified |-> m] :
     a \in {<< >>} \cup {<<f>> : f \in AddedPaths},
     m \in {<< >>, << [dirs |-> << >>, name |-> <<"drs", "json">>] >>}}

\* pushEvent.ref, as the tokens the handler distinguishes
Refs ==
  {<<"refs/heads/", "main">>, <<"refs/heads/", "dev">>, <<"refs/tags/", "main">>}

\* the commits of a push: none, one, or two of which the second only adds
CommitLists ==
  {<< >>} \cup {<<c>> : c \in Commits}
    \cup {<<c, d>> : c \in Commits, d \in {e \in Commits : e.modified = << >>}}

\* a request to /webhook: whether its signature verifies against the secret,
\* the x-github-event header, and the payload
WebhookRequests ==
  {[signature |-> sig, name |-> "push", ref |-> ref, commits |-> cs] :
     sig \in {"valid", "invalid"}, ref \in Refs, cs \in CommitLists}

(***************************************************************************)
(* Values                                                                  *)
(***************************************************************************)
NoToken == [set |-> FALSE, access_token |-> "", expires_at |-> 0]

NoError == [kind |-> "none"]

\* result of a JavaScript property read
JsString(s) == [t |-> "str", v |-> s]

JsUndefined == [t |-> "undef", v |-> ""]

JsFunction == [t |-> "fn", v |-> ""]

Stages == {"acquire", "metadata", "upload", "ingest", "poll"}

NoResponses == [metadata |-> NoResponse, upload |-> NoResponse, ingest |-> NoResponse]

NoRequests == [token |-> 0, metadata |-> 0, upload |-> 0, ingest |-> 0, progress |-> 0]

(***************************************************************************)
(* Pure helpers                                                            *)
(***************************************************************************)
\* response.ok
ResponseOk(status) == status >= 200 /\ status <= 299

\* Object.keys(section), in insertion order
ObjectKeys(section) == [i \in 1..Len(section) |-> section[i][1]]

HasOwn(section, key) == \E i \in 1..Len(section) : section[i][1] = key

OwnValue(section, key) ==
  section[CHOOSE i \in 1..Len(section) : section[i][1] = key][2]

\* section[key]: an own entry, else a member inherited from Object.prototype,
\* else undefined
PropertyRead(section, key) ==
  IF HasOwn(section, key) THEN JsString(OwnValue(section, key))
  ELSE IF key \in ObjectPrototypeKeys THEN JsFunction
  ELSE JsUndefined

\* JavaScript truthiness of the value read
Truthy(x) == x.t = "fn" \/ (x.t = "str" /\ x.v # "")

\* isListsTest ? 'test' : 'prod'
EnvironmentKey(isListsTest) == IF isListsTest THEN "test" ELSE "prod"

\* variant: the safety margin is left out of the test
TokenUsable_NoBuffer(tok, t) == tok.set /\ t < tok.expires_at

\* cachedToken && now < cachedToken.expires_at - bufferMs
TokenUsable(tok, t) == tok.set /\ t < tok.expires_at - bufferMs

\* uploadData.validationErrors && uploadData.validationErrors.length > 0
HasValidationErrors(v) == v.present /\ Len(v.items) > 0

\* variant: the lines are numbered with the bare array index
NumberedLines_ZeroBased(items) == [i \in 1..Len(items) |-> <<i - 1, items[i]>>]

\* validationErrors.map((error, index) => `${index + 1}. ${error}`)
NumberedLines(items) == [i \in 1..Len(items) |-> <<(i - 1) + 1, items[i]>>]

\* variant: the attempts are compared with the budget in seconds
LoopContinues_SecondsBudget(c, a) == ~c /\ a < MAX_WAIT_TIME_SECONDS

\* variant: the loop test ignores the completion flag
LoopContinues_IgnoreCompleted(c, a) == a < MAX_PROGRESS_ATTEMPTS

\* variant: the loop test admits one attempt more
LoopContinues_OffByOne(c, a) == ~c /\ a <= MAX_PROGRESS_ATTEMPTS

\* while (!completed && attempts < MAX_PROGRESS_ATTEMPTS)
LoopContinues(c, a) == ~c /\ a < MAX_PROGRESS_ATTEMPTS

\* variant: the upload call is left out of the sequence
NextStage_SkipUpload(s) ==
  CASE s = "acquire" -> "metadata"
    [] s = "metadata" -> "ingest"
    [] s = "upload" -> "ingest"
    [] s = "ingest" -> "poll"
    [] OTHER -> "poll"

\* the order of the awaited stage calls in reloadList's try block
NextStage(s) ==
  CASE s = "acquire" -> "metadata"
    [] s = "metadata" -> "upload"
    [] s = "upload" -> "ingest"
    [] s = "ingest" -> "poll"
    [] OTHER -> "poll"

\* the try/catch around one poll attempt catches what is thrown inside it
CaughtInLoop(s) == s = "poll"

\* the names reported by the unknown-list error
AvailableFolders(m, e) == ObjectKeys(m.test)

AuthError(r) == [kind |-> "auth", status |-> r.status, body |-> r.body]

UnknownListError(name, m, e) ==
  [kind |-> "unknownList", name |-> name, available |-> AvailableFolders(m, e)]

MetadataError(id, r) ==
  [kind |-> "http", step |-> "metadata", uid |-> id, status |-> r.status]

UploadError(r) ==
  [kind |-> "http", step |-> "upload", status |-> r.status,
   body |-> r.validationErrors]

ValidationError(v) == [kind |-> "validation", lines |-> NumberedLines(v.items)]

IngestError(r) ==
  [kind |-> "http", step |-> "ingest", status |-> r.status, body |-> r.body]

TimeoutError(a) ==
  [kind |-> "timeout", seconds |-> MAX_WAIT_TIME_SECONDS, attempts |-> a]

\* variant: the catch block logs the error and does not rethrow it
Rethrown_Swallowed(err) == [kind |-> "none"]

\* catch (error) { ...; throw error; }
Rethrown(err) == err

ChatError == [kind |-> "chat"]

\* String.prototype.trim on a text made of blanks and words
RECURSIVE TrimStart(_)
TrimStart(t) ==
  IF t # << >> /\ Head(t) = " " THEN TrimStart(Tail(t)) ELSE t

RECURSIVE TrimEnd(_)
TrimEnd(t) ==
  IF t # << >> /\ t[Len(t)] = " " THEN TrimEnd(SubSeq(t, 1, Len(t) - 1)) ELSE t

Trim(t) == TrimEnd(TrimStart(t))

\* the string a text denotes: its blanks and words one after the other
RECURSIVE Concat(_)
Concat(t) == IF t = << >> THEN "" ELSE Head(t) \o Concat(Tail(t))

\* variant: command.text is taken as it is
ListNameOf_Untrimmed(text) == Concat(text)

\* command.text.trim(): the whole trimmed text as a string ("" when nothing
\* is left), blanks between its words included
ListNameOf(text) == Concat(Trim(text))

\* !fileContent
ContentMissing(c) == c.isNull \/ c.text = ""

\* a message passed to sendSlackNotification by the push handler
Notice(kind, file, folder, err) ==
  [kind |-> kind, file |-> file, folder |-> folder, error |-> err]

\* one line pushed onto the messages of createMessageBlocks
Line(kind, err) == [line |-> kind, error |-> err]

\* variant: the update names the channel only
UpdateTarget_NoTimestamp(msg) == [channel |-> msg.channel, ts |-> ""]

\* updateReloadMessage: chat.update is given message.ts and message.channel
UpdateTarget(msg) == [channel |-> msg.channel, ts |-> msg.ts]


(***************************************************************************)
(* Paths and push payloads                                                 *)
(***************************************************************************)
\* A path is the sequence of its folder names (the '/'-separated segments
\* but the last) and the '.'-separated parts of its last segment:
\* imported_GoogleSheets/Foo/a.csv.gz is
\* [dirs |-> <<"imported_GoogleSheets", "Foo">>, name |-> <<"a", "csv", "gz">>]
PathOf(dirs, name) == [dirs |-> dirs, name |-> name]

ImportRoot == "imported_GoogleSheets"

DrsJson == PathOf(<< >>, <<"drs", "json">>)

JsNull == [t |-> "null", v |-> ""]

\* no listing of a folder has been requested
NoListing == [kind |-> "none", entries |-> << >>]

\* no contents of a path have been requested
NoContents == [kind |-> "none"]

\* filename.split('/')
SplitSlash(filename) == Append(filename.dirs, filename.name)

\* filename.startsWith(root + '/')
StartsWithFolder(filename, root) ==
  Len(filename.dirs) >= 1 /\ filename.dirs[1] = root

\* filename.includes('/')
IncludesSlash(filename) == Len(filename.dirs) >= 1

\* filename.endsWith('.' + ext[1] + '.' + ext[2] ...)
EndsWithExtension(filename, ext) ==
  LET n == Len(filename.name)
      k == Len(ext)
  IN  n >= k + 1 /\ SubSeq(filename.name, n - k + 1, n) = ext

isImportedGoogleSheetsFile(filename) ==
  /\ StartsWithFolder(filename, ImportRoot)
  /\ IncludesSlash(filename)
  /\ (EndsWithExtension(filename, <<"csv">>)
        \/ EndsWithExtension(filename, <<"csv", "gz">>))

getParentFolderName(filename) ==
  IF ~isImportedGoogleSheetsFile(filename) THEN JsNull
  ELSE LET parts == SplitSlash(filename)
       IN  IF Len(parts) >= 3 /\ parts[1] = ImportRoot
           THEN JsString(parts[2])
           ELSE JsNull

\* addedFile.split('/').pop()
FileNameOf(filename) == SplitSlash(filename)[Len(SplitSlash(filename))]

\* allAdded.filter(isImportedGoogleSheetsFile)
RECURSIVE FilterImportedGoogleSheets(_)
FilterImportedGoogleSheets(list) ==
  IF list = << >> THEN << >>
  ELSE IF isImportedGoogleSheetsFile(Head(list))
  THEN <<Head(list)>> \o FilterImportedGoogleSheets(Tail(list))
  ELSE FilterImportedGoogleSheets(Tail(list))

\* Array.prototype.slice(0, n)
SliceFirst(list, n) == SubSeq(list, 1, IF Len(list) < n THEN Len(list) ELSE n)

\* commits.forEach(commit => all.push(...(commit[field] || [])))
RECURSIVE Collect(_, _)
Collect(commits, field) ==
  IF commits = << >> THEN << >>
  ELSE Head(commits)[field] \o Collect(Tail(commits), field)

\* Array.prototype.includes
Includes(list, x) == \E i \in 1..Len(list) : list[i] = x

\* pushEvent.ref.replace('refs/heads/', ''), on a ref made of tokens
RECURSIVE RemoveFirst(_, _)
RemoveFirst(tokens, t) ==
  IF tokens = << >> THEN << >>
  ELSE IF Head(tokens) = t THEN Tail(tokens)
  ELSE <<Head(tokens)>> \o RemoveFirst(Tail(tokens), t)

\* variant: every ref counts as the main branch
BranchOf_AnyBranch(ref) == <<"main">>

\* pushEvent.ref.replace('refs/heads/', '')
BranchOf(ref) == RemoveFirst(ref, "refs/heads/")

(***************************************************************************)
(* The diff of two mappings                                                *)
(***************************************************************************)
\* one string pushed onto `changes`: its kind, the key and the values it
\* carries
Change(kind, key, old, new) == [kind |-> kind, key |-> key, old |-> old, new |-> new]

\* key in section: own entries and the members of Object.prototype
KeyIn(section, key) == HasOwn(section, key) \/ key \in ObjectPrototypeKeys

\* the first loop of compareDrMapSection, over Object.entries(newSection)
RECURSIVE AdditionsAndModifications(_, _)
AdditionsAndModifications(oldSection, newEntries) ==
  IF newEntries = << >> THEN << >>
  ELSE LET key == Head(newEntries)[1]
           value == Head(newEntries)[2]
           rest == AdditionsAndModifications(oldSection, Tail(newEntries))
       IN  IF ~KeyIn(oldSection, key)
           THEN <<Change("Added", key, JsUndefined, JsString(value))>> \o rest
           ELSE IF PropertyRead(oldSection, key) # JsString(value)
           THEN <<Change("Changed", key, PropertyRead(oldSection, key),
                         JsString(value))>> \o rest
           ELSE rest

\* the second loop of compareDrMapSection, over Object.entries(oldSection)
RECURSIVE Removals(_, _)
Removals(oldEntries, newSection) ==
  IF oldEntries = << >> THEN << >>
  ELSE LET key == Head(oldEntries)[1]
           value == Head(oldEntries)[2]
           rest == Removals(Tail(oldEntries), newSection)
       IN  IF ~KeyIn(newSection, key)
           THEN <<Change("Removed", key, JsString(value), JsUndefined)>> \o rest
           ELSE rest

\* variant: the removals are pushed before the additions and modifications
compareDrMapSection_RemovalsFirst(oldSection, newSection) ==
  Removals(oldSection, newSection)
    \o AdditionsAndModifications(oldSection, newSection)

compareDrMapSection(oldSection, newSection) ==
  AdditionsAndModifications(oldSection, newSection)
    \o Removals(oldSection, newSection)

\* map.prod || {}
SectionOrEmpty(map, part) == IF part \in DOMAIN map THEN map[part] ELSE << >>

NoChanges == [kind |-> "No changes"]

\* the messages the push handler sends about a drs.json change
DrsNotice(changes) == [kind |-> "drs", changes |-> changes]

DrsErrorNotice == [kind |-> "drs_error"]

(***************************************************************************)
(* drs.json and its load                                                   *)
(*                                                                         *)
(* The text of drs.json is represented by the JSON value it denotes: a     *)
(* mapping, an object that lacks a partition, or null.  UnparsableText is  *)
(* a text that denotes no JSON value and EmptyText is the empty file.      *)
(***************************************************************************)
\* {"test": {"Foo": "dr7"}}
\* a mapping in which the list Foo has another data resource
MovedDrMap == [prod |-> << <<"Foo", "dr9">> >>, test |-> << >>]

TestOnlyDrMap == [test |-> << <<"Foo", "dr7">> >>]

UnparsableText == [t |-> "text", v |-> "{"]

EmptyText == [t |-> "text", v |-> ""]

\* the texts drs.json may have at the pushed revision
DrsFiles ==
  {OtherDrMap, MovedDrMap, TestOnlyDrMap, JsNull, UnparsableText, EmptyText}

\* the texts drs.json may have at HEAD when the process starts
StartFiles == {SampleDrMap, TestOnlyDrMap, JsNull, UnparsableText}

\* what getFileContent resolves to for drs.json: null, or the text
DrsContent(fetchOk, file) ==
  IF fetchOk THEN [isNull |-> FALSE, text |-> file]
  ELSE [isNull |-> TRUE, text |-> EmptyText]

\* JSON.parse(content): throws a SyntaxError, or returns the value
JsonParse(text) ==
  IF text \in {UnparsableText, EmptyText}
  THEN [threw |-> TRUE, value |-> JsNull]
  ELSE [threw |-> FALSE, value |-> text]

\* map[part] is an object: map is not null and has the property
HasPartition(map, part) == map # JsNull /\ part \in DOMAIN map

TypeError == [kind |-> "type"]

\* variant: the parsed partitions are merged into the active mapping
loadDrMapFromGitHub_Merged(content, active) ==
  IF content.isNull \/ content.text = EmptyText \/ JsonParse(content.text).threw
  THEN [threw |-> TRUE, drMap |-> active]
  ELSE LET new == JsonParse(content.text).value
           Merge(part) ==
             IF ~HasPartition(new, part) THEN active[part]
             ELSE SelectSeq(active[part], LAMBDA e : ~HasOwn(new[part], e[1]))
                    \o new[part]
       IN  [threw |-> FALSE,
            drMap |-> IF HasPartition(active, "prod") /\ HasPartition(active, "test")
                      THEN [prod |-> Merge("prod"), test |-> Merge("test")]
                      ELSE new]

\* loadDrMapFromGitHub: throws and leaves drMap alone when the content is
\* null or empty or is not JSON; otherwise drMap becomes the parsed value,
\* whatever its shape
loadDrMapFromGitHub(content, active) ==
  IF content.isNull \/ content.text = EmptyText \/ JsonParse(content.text).threw
  THEN [threw |-> TRUE, drMap |-> active]
  ELSE [threw |-> FALSE, drMap |-> JsonParse(content.text).value]

\* allModified.includes('drs.json') || allAdded.includes('drs.json')
drJsonModified(commits) ==
  Includes(Collect(commits, "modified"), DrsJson)
    \/ Includes(Collect(commits, "added"), DrsJson)

\* allAdded.filter(isImportedGoogleSheetsFile).slice(0, 1)
importedGoogleSheetsAddedOf(commits) ==
  SliceFirst(FilterImportedGoogleSheets(Collect(commits, "added")), 1)

\* whether webhooks.verify(payload, signature) returns a Promise depends on
\* the version of @octokit/webhooks that is installed: verify is synchronous
\* up to version 9 and async from version 10 on
VerifyReturnsPromise == BOOLEAN

\* !isValid, for the value webhooks.verify returns: a boolean, or with an
\* async verify a Promise, which is truthy whatever it settles to
IsValidTruthy(req, returnsPromise) == returnsPromise \/ req.signature = "valid"

\* changes.length === 0 ? 'No changes' : changes
ChangesOrNone(changes) == IF Len(changes) = 0 THEN <<NoChanges>> ELSE changes

\* variant: the testing section is computed from the production partitions
formatDrMapChanges_TestFromProd(old, new) ==
  [prod |-> ChangesOrNone(compareDrMapSection(SectionOrEmpty(old, "prod"),
                                              SectionOrEmpty(new, "prod"))),
   test |-> ChangesOrNone(compareDrMapSection(SectionOrEmpty(old, "prod"),
                                              SectionOrEmpty(new, "prod")))]

\* oldDrMap.prod or newDrMap.prod is read from null: a TypeError is thrown
FormatThrows(old, new) == old = JsNull \/ new = JsNull

\* the message: the Production section and the Testing section
formatDrMapChanges(old, new) ==
  [prod |-> ChangesOrNone(compareDrMapSection(SectionOrEmpty(old, "prod"),
                                              SectionOrEmpty(new, "prod"))),
   test |-> ChangesOrNone(compareDrMapSection(SectionOrEmpty(old, "test"),
                                              SectionOrEmpty(new, "test")))]

(***************************************************************************)
(* State                                                                   *)
(***************************************************************************)
VARIABLES
  isListsTest,    \* LISTS_API_ENDPOINT contains '.test'
  tokenTtl,       \* expires_in answered by the token endpoint
  drMap,          \* the active mapping: the drMap of the server
  serverPc,       \* the process: "loading", "listening", "exited", "crashed",
                  \* "stopped"
  cachedToken,    \* lists.ts cachedToken
  now,            \* Date.now()
  ticks,          \* clock jumps taken
  authFailures,   \* token requests refused so far
  caller,         \* who called reloadList: "none", "push", "reload"
  pc,             \* position of the reloadList run
  stage,          \* stage the run is in
  pName,          \* parentFolderName
  pContent,       \* fileContent
  pDrMap,         \* the drMap argument
  tokNow,         \* `now` captured by the getAccessToken call in flight
  dataResourceUid,
  speciesListID,
  localFile,
  completed,
  attempts,
  thrown,         \* the error thrown into reloadList's catch block
  result,         \* the error reloadList rejected with (pc = "done")
  nReq,           \* requests issued by this run, per endpoint
  okStages,       \* stages whose request was answered with success
  resp,           \* the answer received by each stage request
  lastProgress,   \* the latest progress response received
  authFailStage,  \* stage in which a token request was refused
  cmdPc,          \* position of the /reload handler
  cmdText,        \* command.text
  listName,       \* command.text.trim()
  cmdUid,         \* dataResourceUid read by the handler
  latestFile,     \* result of findLatestFileForList
  fileContent,    \* result of getFileContent
  messages,       \* the lines held by the updateBlocks closure
  shown,          \* the lines of the progress message as last written
  said,           \* the replies passed to say(), in order
  inflight,       \* the line carried by the chat update in flight
  message,        \* the response of the say() that posted the progress message
  updates,        \* the (channel, ts) given to chat.update, call by call
  accessToken,    \* the token the latest getAccessToken call returned
  tokenResp,      \* the latest answer of the token endpoint
  repoDrs,        \* drs.json in the repository at the pushed revision
  hookPc,         \* position of the webhook endpoint and the push handler
  hookReq,        \* the webhook request being served
  hookStatus,     \* status of the HTTP response sent (0: none yet)
  oldDrMap,       \* the push handler's deep copy of drMap
  importedGoogleSheetsAdded, \* the filtered and sliced added files
  notifications,  \* the messages passed to sendSlackNotification, in order
  fetched,        \* the paths passed to getFileContent by the handler
  slackDrMap,     \* the drMap of the slack module, read by the commands
  importsSetDrMap, \* the server module imports setDrMap and calls it
  fnPc,           \* position of the call of the function under study
  listing,        \* the answer to the listing of a list's folder
  response,       \* the answer to the contents request for a path
  returned,       \* the value the function under study returned
  requests,       \* the requests the function under study issued, in order
  cleanPc,        \* position of the /clean handler
  cleanText,      \* command.text of the /clean command
  deletes,        \* the chat.delete calls of the /clean handler
  deliveries,     \* the push handlers of concurrent deliveries
  pushMessage     \* the value the push handler got from sendSlackNotification

pipeVars ==
  <<pc, stage, pName, pContent, pDrMap, tokNow, dataResourceUid,
    speciesListID, localFile, completed, attempts, thrown, result>>

histVars == <<nReq, okStages, resp, lastProgress, authFailStage>>

envVars ==
  <<isListsTest, tokenTtl, drMap, slackDrMap, importsSetDrMap, serverPc>>

callVars ==
  <<fnPc, listing, response, returned, requests, cleanPc, cleanText, deletes,
    deliveries, pushMessage>>

cmdVars ==
  <<cmdPc, cmdText, listName, cmdUid, latestFile, fileContent, messages,
    shown, said, inflight, message, updates>>

tokVars == <<accessToken, tokenResp>>

hookVars ==
  <<repoDrs, hookPc, hookReq, hookStatus, oldDrMap,
    importedGoogleSheetsAdded, notifications, fetched>>

vars ==
  <<isListsTest, tokenTtl, drMap, serverPc, cachedToken, now, ticks,
    authFailures, caller, pc, stage, pName, pContent, pDrMap, tokNow, dataResourceUid,
    speciesListID, localFile, completed, attempts, thrown, result,
    nReq, okStages, resp, lastProgress, authFailStage,
    cmdPc, cmdText, listName, cmdUid, latestFile, fileContent, messages,
    shown, said, inflight, message, updates, accessToken, tokenResp,
    repoDrs, hookPc, hookReq, hookStatus, oldDrMap,
    importedGoogleSheetsAdded, notifications, fetched,
    slackDrMap, importsSetDrMap, fnPc, listing, response, returned,
    requests, cleanPc, cleanText, deletes, deliveries, pushMessage>>

TotalRequests ==
  nReq.token + nReq.metadata + nReq.upload + nReq.ingest + nReq.progress

ListApiRequests == nReq.metadata + nReq.upload + nReq.ingest + nReq.progress

InitialTokens ==
  {NoToken} \cup
  {[set |-> TRUE, access_token |-> a, expires_at |-> tokenTtl * 1000 - age] :
     a \in AccessTokens, age \in InitialTokenAges}

\* no function is under study
FnIdle ==
  /\ fnPc = "idle"
  /\ listing = NoListing
  /\ response = NoContents
  /\ returned = JsNull
  /\ requests = << >>

\* no /clean command has arrived
CleanIdle ==
  /\ cleanPc = "idle"
  /\ cleanText = << >>
  /\ deletes = << >>

\* no function is under study, no /clean command has arrived and no
\* concurrent delivery is being handled
CallsIdle ==
  /\ FnIdle
  /\ CleanIdle
  /\ deliveries = << >>
  /\ pushMessage = JsUndefined

\* no reloadList run has started and no /reload command has arrived
PipelineIdle ==
  /\ now = 0
  /\ ticks = 0
  /\ authFailures = 0
  /\ caller = "none"
  /\ pc = "idle"
  /\ stage = "acquire"
  /\ pName = ""
  /\ pContent = ""
  /\ pDrMap = EmptyDrMap
  /\ tokNow = 0
  /\ dataResourceUid = JsUndefined
  /\ speciesListID = ""
  /\ localFile = ""
  /\ completed = FALSE
  /\ attempts = 0
  /\ thrown = NoError
  /\ result = NoError
  /\ nReq = NoRequests
  /\ okStages = {}
  /\ resp = NoResponses
  /\ lastProgress = NoResponse
  /\ authFailStage = "none"
  /\ cmdPc = "idle"
  /\ cmdText = << >>
  /\ listName = ""
  /\ cmdUid = JsUndefined
  /\ latestFile = [found |-> FALSE, name |-> ""]
  /\ fileContent = [isNull |-> TRUE, text |-> ""]
  /\ messages = << >>
  /\ shown = << >>
  /\ said = << >>
  /\ inflight = ""
  /\ message = NoMessage
  /\ updates = << >>
  /\ accessToken = ""
  /\ tokenResp = NoResponse

\* no webhook request has arrived
HookIdle ==
  /\ hookPc = "idle"
  /\ hookReq = NoWebhookRequest
  /\ hookStatus = 0
  /\ oldDrMap = EmptyDrMap
  /\ importedGoogleSheetsAdded = << >>
  /\ notifications = << >>
  /\ fetched = << >>

Init ==
  /\ isListsTest \in BOOLEAN
  /\ tokenTtl \in TokenLifetimes
  /\ drMap \in DrMaps
  /\ serverPc = "listening"
  /\ slackDrMap = drMap
  /\ importsSetDrMap = TRUE
  /\ cachedToken \in InitialTokens
  /\ PipelineIdle
  /\ CallsIdle
  /\ HookIdle
  /\ repoDrs = drMap

(***************************************************************************)
(* The clock                                                               *)
(***************************************************************************)
Tick ==
  /\ ticks < MaxTicks
  /\ pc # "done"
  /\ stage # "poll"
  /\ ticks' = ticks + 1
  /\ now' = now + TickMs
  /\ UNCHANGED <<callVars, envVars, hookVars, tokVars, cmdVars, cachedToken, authFailures, caller, pipeVars, histVars>>

(***************************************************************************)
(* reloadList                                                              *)
(***************************************************************************)
\* the body of reloadList up to its first await (Step 0)
EnterReloadList(who, name, content, map) ==
  /\ caller' = who
  /\ pc' = "call_token"
  /\ stage' = "acquire"
  /\ pName' = name
  /\ pContent' = content
  /\ pDrMap' = map
  /\ UNCHANGED <<tokNow, dataResourceUid, speciesListID, localFile,
                 completed, attempts, thrown, result>>

\* variant: the run is given the copy of the mapping taken before the reload
HandlerCallsReloadList_OldMapping(addedFile, content) ==
  /\ hookPc' = "reload"
  /\ EnterReloadList("push", getParentFolderName(addedFile).v, content, oldDrMap)

\* the push handler's call reloadList(parentFolderName, fileContent, drMap)
\* for the added file whose content it has fetched
HandlerCallsReloadList(addedFile, content) ==
  /\ hookPc' = "reload"
  /\ EnterReloadList("push", getParentFolderName(addedFile).v, content, drMap)

\* reloadList settles in the push handler: the completed notification, or the
\* catch block's failure notification, is passed to sendSlackNotification
PushReloadReturns ==
  /\ hookPc = "reload"
  /\ caller = "push"
  /\ pc = "done"
  /\ LET fileName == FileNameOf(importedGoogleSheetsAdded[1])
     IN  notifications' =
           Append(notifications,
                  IF result = NoError
                  THEN Notice("completed", fileName, pName, NoError)
                  ELSE Notice("failed", fileName, "", result))
  /\ hookPc' = "notify"
  /\ UNCHANGED <<callVars, envVars, tokVars, cmdVars, cachedToken, now, ticks,
                 authFailures, caller, pipeVars, histVars,
                 repoDrs, hookReq, hookStatus, oldDrMap,
                 importedGoogleSheetsAdded, fetched>>

\* sendSlackNotification settles (it catches every error of the chat call);
\* after the notification of a file the handler returns
PushNotified ==
  /\ hookPc = "notify"
  /\ hookPc' = "done"
  /\ UNCHANGED <<callVars, envVars, tokVars, cmdVars, cachedToken, now, ticks,
                 authFailures, caller, pipeVars, histVars,
                 repoDrs, hookReq, hookStatus, oldDrMap,
                 importedGoogleSheetsAdded, notifications, fetched>>

\* getAccessToken, cached branch
GetAccessTokenCached ==
  /\ serverPc = "listening"
  /\ pc = "call_token"
  /\ TokenUsable(cachedToken, now)
  /\ pc' = "have_token"
  /\ accessToken' = cachedToken.access_token
  /\ UNCHANGED <<callVars, envVars, hookVars, tokenResp, cmdVars, cachedToken, now, ticks, authFailures,
                 caller,
                 stage, pName, pContent, pDrMap, tokNow, dataResourceUid,
                 speciesListID, localFile, completed, attempts, thrown,
                 result, histVars>>

\* getAccessToken, the token request is issued
GetAccessTokenFetch ==
  /\ serverPc = "listening"
  /\ pc = "call_token"
  /\ ~TokenUsable(cachedToken, now)
  /\ pc' = "await_token"
  /\ tokNow' = now
  /\ nReq' = [nReq EXCEPT !.token = @ + 1]
  /\ UNCHANGED <<callVars, envVars, hookVars, tokVars, cmdVars, cachedToken, now, ticks, authFailures,
                 caller,
                 stage, pName, pContent, pDrMap, dataResourceUid,
                 speciesListID, localFile, completed, attempts, thrown,
                 result, okStages, resp, lastProgress, authFailStage>>

\* getAccessToken, the token endpoint answers with success
TokenResponseOk ==
  /\ serverPc = "listening"
  /\ pc = "await_token"
  /\ \E a \in AccessTokens :
       /\ tokenResp' = TokenData(a, tokenTtl)
       /\ cachedToken' = [set |-> TRUE, access_token |-> tokenResp'.access_token,
                          expires_at |-> tokNow + tokenResp'.expires_in * 1000]
       /\ accessToken' = tokenResp'.access_token
  /\ pc' = "have_token"
  /\ UNCHANGED <<callVars, envVars, hookVars, cmdVars, now, ticks, authFailures, caller,
                 stage, pName, pContent, pDrMap, tokNow, dataResourceUid,
                 speciesListID, localFile, completed, attempts, thrown,
                 result, histVars>>

\* variant: a refused token request also drops the cached token
TokenResponseFail_ClearsCache ==
  /\ serverPc = "listening"
  /\ pc = "await_token"
  /\ authFailures < MaxAuthFailures
  /\ authFailures' = authFailures + 1
  /\ authFailStage' = stage
  /\ cachedToken' = NoToken
  /\ \E r \in TokenFailures :
       /\ tokenResp' = r
       /\ IF CaughtInLoop(stage)
          THEN /\ pc' = "loop"
               /\ UNCHANGED thrown
          ELSE /\ pc' = "catch"
               /\ thrown' = AuthError(r)
  /\ UNCHANGED <<callVars, envVars, hookVars, accessToken, cmdVars, now, ticks, caller,
                 stage, pName, pContent, pDrMap, tokNow, dataResourceUid,
                 speciesListID, localFile, completed, attempts,
                 result, nReq, okStages, resp, lastProgress>>

\* getAccessToken, the token endpoint answers with a non-success status:
\* the error is thrown to the caller of getAccessToken
TokenResponseFail ==
  /\ serverPc = "listening"
  /\ pc = "await_token"
  /\ authFailures < MaxAuthFailures
  /\ authFailures' = authFailures + 1
  /\ authFailStage' = stage
  /\ \E r \in TokenFailures :
       /\ tokenResp' = r
       /\ IF CaughtInLoop(stage)
          THEN /\ pc' = "loop"
               /\ UNCHANGED thrown
          ELSE /\ pc' = "catch"
               /\ thrown' = AuthError(r)
  /\ UNCHANGED <<callVars, envVars, hookVars, accessToken, cmdVars, cachedToken, now, ticks, caller,
                 stage, pName, pContent, pDrMap, tokNow, dataResourceUid,
                 speciesListID, localFile, completed, attempts,
                 result, nReq, okStages, resp, lastProgress>>

\* variant: the lookup is made in the mapping that is active at that time
ResolveList_ActiveMapping ==
  /\ serverPc = "listening"
  /\ pc = "have_token"
  /\ stage = "acquire"
  /\ LET uid == PropertyRead(drMap[EnvironmentKey(isListsTest)], pName)
     IN  IF ~HasPartition(drMap, EnvironmentKey(isListsTest))
         THEN /\ pc' = "catch"
              /\ thrown' = TypeError
              /\ UNCHANGED <<stage, dataResourceUid>>
         ELSE IF ~Truthy(uid)
         THEN /\ pc' = "catch"
              /\ thrown' = IF HasPartition(drMap, "test")
                           THEN UnknownListError(pName, drMap,
                                                 EnvironmentKey(isListsTest))
                           ELSE TypeError
              /\ UNCHANGED <<stage, dataResourceUid>>
         ELSE /\ pc' = "call_token"
              /\ stage' = NextStage(stage)
              /\ dataResourceUid' = uid
              /\ UNCHANGED thrown
  /\ UNCHANGED <<callVars, envVars, hookVars, tokVars, cmdVars, cachedToken, now, ticks, authFailures,
                 caller,
                 pName, pContent, pDrMap, tokNow,
                 speciesListID, localFile, completed, attempts,
                 result, histVars>>

\* Step 1: the lookup in the drMap argument
ResolveList ==
  /\ serverPc = "listening"
  /\ pc = "have_token"
  /\ stage = "acquire"
  /\ LET uid == PropertyRead(pDrMap[EnvironmentKey(isListsTest)], pName)
     IN  IF ~HasPartition(pDrMap, EnvironmentKey(isListsTest))
         THEN /\ pc' = "catch"
              /\ thrown' = TypeError
              /\ UNCHANGED <<stage, dataResourceUid>>
         ELSE IF ~Truthy(uid)
         THEN /\ pc' = "catch"
              /\ thrown' = IF HasPartition(pDrMap, "test")
                           THEN UnknownListError(pName, pDrMap,
                                                 EnvironmentKey(isListsTest))
                           ELSE TypeError
              /\ UNCHANGED <<stage, dataResourceUid>>
         ELSE /\ pc' = "call_token"
              /\ stage' = NextStage(stage)
              /\ dataResourceUid' = uid
              /\ UNCHANGED thrown
  /\ UNCHANGED <<callVars, envVars, hookVars, tokVars, cmdVars, cachedToken, now, ticks, authFailures,
                 caller,
                 pName, pContent, pDrMap, tokNow,
                 speciesListID, localFile, completed, attempts,
                 result, histVars>>

\* the fetch of the stage is issued with the bearer token
IssueRequest ==
  /\ serverPc = "listening"
  /\ pc = "have_token"
  /\ stage # "acquire"
  /\ pc' = "await_fetch"
  /\ nReq' = CASE stage = "metadata" -> [nReq EXCEPT !.metadata = @ + 1]
               [] stage = "upload" -> [nReq EXCEPT !.upload = @ + 1]
               [] stage = "ingest" -> [nReq EXCEPT !.ingest = @ + 1]
               [] OTHER -> [nReq EXCEPT !.progress = @ + 1]
  /\ UNCHANGED <<callVars, envVars, hookVars, tokVars, cmdVars, cachedToken, now, ticks, authFailures,
                 caller,
                 stage, pName, pContent, pDrMap, tokNow, dataResourceUid,
                 speciesListID, localFile, completed, attempts, thrown,
                 result, okStages, resp, lastProgress, authFailStage>>

\* fetchSpeciesListId, the answer
MetadataResponse ==
  /\ serverPc = "listening"
  /\ pc = "await_fetch"
  /\ stage = "metadata"
  /\ \E r \in MetadataResponses :
       /\ resp' = [resp EXCEPT !.metadata = r]
       /\ IF ~ResponseOk(r.status)
          THEN /\ pc' = "catch"
               /\ thrown' = MetadataError(dataResourceUid, r)
               /\ UNCHANGED <<stage, speciesListID, okStages>>
          ELSE /\ pc' = "call_token"
               /\ stage' = NextStage(stage)
               /\ speciesListID' = r.id
               /\ okStages' = okStages \cup {stage}
               /\ UNCHANGED thrown
  /\ UNCHANGED <<callVars, envVars, hookVars, tokVars, cmdVars, cachedToken, now, ticks, authFailures,
                 caller,
                 pName, pContent, pDrMap, tokNow, dataResourceUid,
                 localFile, completed, attempts,
                 result, nReq, lastProgress, authFailStage>>

\* uploadFileContent, the answer
UploadResponse ==
  /\ serverPc = "listening"
  /\ pc = "await_fetch"
  /\ stage = "upload"
  /\ \E r \in UploadResponses :
       /\ resp' = [resp EXCEPT !.upload = r]
       /\ IF ~ResponseOk(r.status)
          THEN /\ pc' = "catch"
               /\ thrown' = UploadError(r)
               /\ UNCHANGED <<stage, localFile, okStages>>
          ELSE IF HasValidationErrors(r.validationErrors)
          THEN /\ pc' = "catch"
               /\ thrown' = ValidationError(r.validationErrors)
               /\ UNCHANGED <<stage, localFile, okStages>>
          ELSE /\ pc' = "call_token"
               /\ stage' = NextStage(stage)
               /\ localFile' = r.localFile
               /\ okStages' = okStages \cup {stage}
               /\ UNCHANGED thrown
  /\ UNCHANGED <<callVars, envVars, hookVars, tokVars, cmdVars, cachedToken, now, ticks, authFailures,
                 caller,
                 pName, pContent, pDrMap, tokNow, dataResourceUid,
                 speciesListID, completed, attempts,
                 result, nReq, lastProgress, authFailStage>>

\* ingestFile, the answer; on success waitForIngestionCompletion is entered
IngestResponse ==
  /\ serverPc = "listening"
  /\ pc = "await_fetch"
  /\ stage = "ingest"
  /\ \E r \in IngestResponses :
       /\ resp' = [resp EXCEPT !.ingest = r]
       /\ IF ~ResponseOk(r.status)
          THEN /\ pc' = "catch"
               /\ thrown' = IngestError(r)
               /\ UNCHANGED <<stage, completed, attempts, okStages>>
          ELSE /\ pc' = "loop"
               /\ stage' = NextStage(stage)
               /\ completed' = FALSE
               /\ attempts' = 0
               /\ okStages' = okStages \cup {stage}
               /\ UNCHANGED thrown
  /\ UNCHANGED <<callVars, envVars, hookVars, tokVars, cmdVars, cachedToken, now, ticks, authFailures,
                 caller,
                 pName, pContent, pDrMap, tokNow, dataResourceUid,
                 speciesListID, localFile,
                 result, nReq, lastProgress, authFailStage>>

\* waitForIngestionCompletion, the loop test: the timer is started, or the
\* loop is left
PollLoop ==
  /\ serverPc = "listening"
  /\ pc = "loop"
  /\ IF LoopContinues(completed, attempts)
     THEN /\ pc' = "sleep"
          /\ UNCHANGED <<thrown, result>>
     ELSE IF ~completed
     THEN /\ pc' = "catch"
          /\ thrown' = TimeoutError(attempts)
          /\ UNCHANGED result
     ELSE /\ pc' = "done"
          /\ UNCHANGED <<thrown, result>>
  /\ UNCHANGED <<callVars, envVars, hookVars, tokVars, cmdVars, cachedToken, now, ticks, authFailures,
                 caller,
                 stage, pName, pContent, pDrMap, tokNow, dataResourceUid,
                 speciesListID, localFile, completed, attempts, histVars>>

\* the timer fires; attempts++ and the attempt's try block is entered
PollWake ==
  /\ serverPc = "listening"
  /\ pc = "sleep"
  /\ now' = now + PROGRESS_CHECK_INTERVAL
  /\ attempts' = attempts + 1
  /\ pc' = "call_token"
  /\ UNCHANGED <<callVars, envVars, hookVars, tokVars, cmdVars, cachedToken, ticks, authFailures, caller,
                 stage, pName, pContent, pDrMap, tokNow, dataResourceUid,
                 speciesListID, localFile, completed, thrown, result,
                 histVars>>

\* variant: a non-success progress status is thrown out of the loop
ProgressResponse_AbortOnError ==
  /\ serverPc = "listening"
  /\ pc = "await_fetch"
  /\ stage = "poll"
  /\ \E r \in ProgressResponses :
       /\ lastProgress' = r
       /\ IF ~ResponseOk(r.status)
          THEN /\ pc' = "catch"
               /\ thrown' = [kind |-> "http", step |-> "progress", status |-> r.status]
               /\ UNCHANGED completed
          ELSE /\ pc' = "loop"
               /\ completed' = r.completed
               /\ UNCHANGED thrown
  /\ UNCHANGED <<callVars, envVars, hookVars, tokVars, cmdVars, cachedToken, now, ticks, authFailures,
                 caller, stage, pName, pContent, pDrMap, tokNow,
                 dataResourceUid, speciesListID, localFile, attempts, result,
                 nReq, okStages, resp, authFailStage>>

\* variant: any success answer of the progress endpoint ends the polling
ProgressResponse_OkMeansDone ==
  /\ serverPc = "listening"
  /\ pc = "await_fetch"
  /\ stage = "poll"
  /\ \E r \in ProgressResponses :
       /\ lastProgress' = r
       /\ IF ~ResponseOk(r.status)
          THEN UNCHANGED completed
          ELSE completed' = TRUE
  /\ pc' = "loop"
  /\ UNCHANGED <<callVars, envVars, hookVars, tokVars, cmdVars, cachedToken, now, ticks, authFailures,
                 caller,
                 stage, pName, pContent, pDrMap, tokNow, dataResourceUid,
                 speciesListID, localFile, attempts, thrown, result,
                 nReq, okStages, resp, authFailStage>>

\* one progress check, the answer
ProgressResponse ==
  /\ serverPc = "listening"
  /\ pc = "await_fetch"
  /\ stage = "poll"
  /\ \E r \in ProgressResponses :
       /\ lastProgress' = r
       /\ IF ~ResponseOk(r.status)
          THEN UNCHANGED completed
          ELSE completed' = r.completed
  /\ pc' = "loop"
  /\ UNCHANGED <<callVars, envVars, hookVars, tokVars, cmdVars, cachedToken, now, ticks, authFailures,
                 caller,
                 stage, pName, pContent, pDrMap, tokNow, dataResourceUid,
                 speciesListID, localFile, attempts, thrown, result,
                 nReq, okStages, resp, authFailStage>>

\* reloadList's catch block: log and rethrow
ReloadListCatch ==
  /\ serverPc = "listening"
  /\ pc = "catch"
  /\ pc' = "done"
  /\ result' = Rethrown(thrown)
  /\ UNCHANGED <<callVars, envVars, hookVars, tokVars, cmdVars, cachedToken, now, ticks, authFailures,
                 caller,
                 stage, pName, pContent, pDrMap, tokNow, dataResourceUid,
                 speciesListID, localFile, completed, attempts, thrown,
                 histVars>>

(***************************************************************************)
(* The /reload command                                                     *)
(***************************************************************************)
\* the command arrives and the handler awaits ack()
CmdReload ==
  /\ serverPc = "listening"
  /\ cmdPc = "idle"
  /\ caller = "none"
  /\ hookPc = "idle" \/ hookReq = DrsPush
  /\ \E text \in CommandTexts : cmdText' = text
  /\ cmdPc' = "ack"
  /\ UNCHANGED <<callVars, envVars, hookVars, tokVars, cachedToken, now, ticks, authFailures, caller,
                 pipeVars, histVars, listName, cmdUid, latestFile,
                 fileContent, messages, shown, said, inflight, message,
                 updates>>

\* after ack(): the argument is trimmed and looked up, and a reply is said
CmdAfterAck ==
  /\ serverPc = "listening"
  /\ cmdPc = "ack"
  /\ LET name == ListNameOf(cmdText)
         uid == PropertyRead(slackDrMap[EnvironmentKey(isListsTest)], name)
     IN  /\ listName' = name
         /\ IF name = ""
            THEN /\ said' = Append(said, "usage")
                 /\ cmdPc' = "say_final"
                 /\ UNCHANGED <<cmdUid, messages>>
            ELSE IF ~HasPartition(slackDrMap, EnvironmentKey(isListsTest))
            THEN /\ cmdPc' = "rejected"
                 /\ UNCHANGED <<said, cmdUid, messages>>
            ELSE IF ~Truthy(uid)
            THEN /\ said' = Append(said, "notfound")
                 /\ cmdPc' = "say_final"
                 /\ cmdUid' = uid
                 /\ UNCHANGED messages
            ELSE /\ said' = Append(said, "blocks")
                 /\ cmdPc' = "say_start"
                 /\ cmdUid' = uid
                 /\ messages' = Append(messages, Line("starting", NoError))
  /\ UNCHANGED <<callVars, envVars, hookVars, tokVars, cachedToken, now, ticks, authFailures, caller,
                 pipeVars, histVars, cmdText, latestFile, fileContent,
                 shown, inflight, message, updates>>

\* say() settles; after the initial message findLatestFileForList is called
CmdSayReturns ==
  /\ serverPc = "listening"
  /\ cmdPc \in {"say_final", "say_start"}
  /\ \E ok \in BOOLEAN :
       IF ~ok
       THEN /\ cmdPc' = "rejected"
            /\ UNCHANGED <<shown, message>>
       ELSE IF cmdPc = "say_final"
       THEN /\ cmdPc' = "done"
            /\ UNCHANGED <<shown, message>>
       ELSE /\ cmdPc' = "find"
            /\ shown' = messages
            /\ \E r \in SayResponses : message' = r
  /\ UNCHANGED <<callVars, envVars, hookVars, tokVars, cachedToken, now, ticks, authFailures, caller,
                 pipeVars, histVars, cmdText, listName, cmdUid, latestFile,
                 fileContent, messages, said, inflight, updates>>

\* findLatestFileForList settles; the next line is sent as an update
CmdFindReturns ==
  /\ serverPc = "listening"
  /\ cmdPc = "find"
  /\ \E f \in LatestFileChoices :
       /\ latestFile' = f
       /\ inflight' = IF f.found THEN "found" ELSE "nofiles"
       /\ messages' = Append(messages, Line(inflight', NoError))
  /\ updates' = Append(updates, UpdateTarget(message))
  /\ cmdPc' = "update"
  /\ UNCHANGED <<callVars, envVars, hookVars, tokVars, cachedToken, now, ticks, authFailures, caller,
                 pipeVars, histVars, cmdText, listName, cmdUid,
                 fileContent, shown, said, message>>

\* getFileContent settles; the next line is sent as an update
CmdFetchReturns ==
  /\ serverPc = "listening"
  /\ cmdPc = "fetch"
  /\ \E c \in ContentChoices :
       /\ fileContent' = c
       /\ inflight' = IF ContentMissing(c) THEN "dlfailed" ELSE "startreload"
       /\ messages' = Append(messages, Line(inflight', NoError))
  /\ updates' = Append(updates, UpdateTarget(message))
  /\ cmdPc' = "update"
  /\ UNCHANGED <<callVars, envVars, hookVars, tokVars, cachedToken, now, ticks, authFailures, caller,
                 pipeVars, histVars, cmdText, listName, cmdUid,
                 latestFile, shown, said, message>>

\* updateReloadMessage settles with success: the handler goes on to its next
\* await, which for the "starting reload" line is the call of reloadList
CmdUpdateOk ==
  /\ serverPc = "listening"
  /\ cmdPc = "update"
  /\ shown' = messages
  /\ IF inflight = "startreload"
     THEN /\ cmdPc' = "reload"
          /\ EnterReloadList("reload", listName, fileContent.text, slackDrMap)
     ELSE /\ cmdPc' = IF inflight = "found" THEN "fetch" ELSE "done"
          /\ UNCHANGED <<caller, pipeVars>>
  /\ UNCHANGED <<callVars, envVars, hookVars, tokVars, cachedToken, now, ticks, authFailures,
                 histVars, cmdText, listName, cmdUid, latestFile,
                 fileContent, messages, said, inflight, message, updates>>

\* updateReloadMessage rejects: inside the try block the catch block sends
\* the failure line; inside the catch block the handler rejects
CmdUpdateFails ==
  /\ serverPc = "listening"
  /\ cmdPc = "update"
  /\ IF inflight = "failed"
     THEN /\ cmdPc' = "rejected"
          /\ UNCHANGED <<messages, inflight, updates>>
     ELSE /\ cmdPc' = "update"
          /\ inflight' = "failed"
          /\ messages' = Append(messages, Line("failed", ChatError))
          /\ updates' = Append(updates, UpdateTarget(message))
  /\ UNCHANGED <<callVars, envVars, hookVars, tokVars, cachedToken, now, ticks, authFailures, caller,
                 pipeVars, histVars, cmdText, listName, cmdUid, latestFile,
                 fileContent, shown, said, message>>

\* reloadList settles: the completed line, or the catch block's failure line
CmdReloadReturns ==
  /\ serverPc = "listening"
  /\ cmdPc = "reload"
  /\ pc = "done"
  /\ inflight' = IF result = NoError THEN "completed" ELSE "failed"
  /\ messages' = Append(messages, Line(inflight', result))
  /\ updates' = Append(updates, UpdateTarget(message))
  /\ cmdPc' = "update"
  /\ UNCHANGED <<callVars, envVars, hookVars, tokVars, cachedToken, now, ticks, authFailures, caller,
                 pipeVars, histVars, cmdText, listName, cmdUid, latestFile,
                 fileContent, shown, said, message>>

(***************************************************************************)
(* The webhook endpoint and the push handler                               *)
(***************************************************************************)
\* setDrMap of the slack module, called by the server with the mapping it
\* just loaded: the module's drMap (current) becomes newDrMap
setDrMap(newDrMap, current) == newDrMap

\* the handler from the filter of the added files up to its next await
HandleAdditions ==
  LET selected == importedGoogleSheetsAddedOf(hookReq.commits)
  IN  /\ importedGoogleSheetsAdded' = selected
      /\ IF selected # << >> /\ Truthy(getParentFolderName(selected[1]))
         THEN /\ fetched' = Append(fetched, selected[1])
              /\ hookPc' = "fetch"
         ELSE /\ hookPc' = "done"
              /\ UNCHANGED fetched

\* the endpoint serves a request: the signature is verified and the response
\* is sent; for a valid request the processing is scheduled with setImmediate
WebhookServes(req, returnsPromise) ==
  /\ serverPc = "listening"
  /\ hookPc = "idle"
  /\ hookReq' = req
  /\ IF ~IsValidTruthy(req, returnsPromise)
     THEN /\ hookStatus' = 401
          /\ hookPc' = "done"
     ELSE /\ hookStatus' = 200
          /\ hookPc' = "immediate"
  /\ UNCHANGED <<callVars, envVars, tokVars, cmdVars, cachedToken, now, ticks,
                 authFailures, caller, pipeVars, histVars,
                 repoDrs, oldDrMap,
                 importedGoogleSheetsAdded, notifications, fetched>>

\* a request arrives at /webhook while nothing else is in progress
WebhookEndpoint ==
  /\ caller = "none"
  /\ cmdPc = "idle"
  /\ \E req \in WebhookRequests, returnsPromise \in VerifyReturnsPromise :
       WebhookServes(req, returnsPromise)

\* a verified push to main that adds a file for a list arrives at /webhook
\* while no run and no command is in progress
FileDelivery ==
  /\ caller = "none"
  /\ pc = "idle"
  /\ cmdPc = "idle"
  /\ \E list \in ListNames, returnsPromise \in VerifyReturnsPromise :
       WebhookServes(FilePush(list), returnsPromise)

\* a verified push to main that changes only drs.json arrives at /webhook,
\* whatever else is in progress
DrsDelivery ==
  \E returnsPromise \in VerifyReturnsPromise : WebhookServes(DrsPush, returnsPromise)

\* the scheduled callback: webhooks.receive runs the push handler up to its
\* first await
WebhookReceive ==
  /\ serverPc = "listening"
  /\ hookPc = "immediate"
  /\ IF hookReq.name # "push" \/ BranchOf(hookReq.ref) # <<"main">>
     THEN /\ hookPc' = "done"
          /\ UNCHANGED <<oldDrMap, importedGoogleSheetsAdded, fetched>>
     ELSE IF drJsonModified(hookReq.commits)
     THEN /\ oldDrMap' = drMap
          /\ fetched' = Append(fetched, DrsJson)
          /\ hookPc' = "load"
          /\ UNCHANGED importedGoogleSheetsAdded
     ELSE /\ HandleAdditions
          /\ UNCHANGED oldDrMap
  /\ UNCHANGED <<callVars, envVars, tokVars, cmdVars, cachedToken, now, ticks,
                 authFailures, caller, pipeVars, histVars,
                 repoDrs, hookReq, hookStatus,
                 notifications>>

\* getFileContent settles for drs.json and loadDrMapFromGitHub with it: drMap
\* is replaced and the changes are sent, or the load or the formatting threw
\* and the error is sent; the drMap of the slack module is not touched
PushDrsLoaded ==
  /\ serverPc = "listening"
  /\ ~importsSetDrMap
  /\ hookPc = "load"
  /\ \E fetchOk \in BOOLEAN :
       LET out == loadDrMapFromGitHub(DrsContent(fetchOk, repoDrs), drMap)
       IN  /\ drMap' = out.drMap
           /\ notifications' =
                Append(notifications,
                       IF out.threw \/ FormatThrows(oldDrMap, out.drMap)
                       THEN DrsErrorNotice
                       ELSE DrsNotice(formatDrMapChanges(oldDrMap, out.drMap)))
  /\ hookPc' = "notify_drs"
  /\ UNCHANGED <<callVars, isListsTest, tokenTtl, slackDrMap, importsSetDrMap,
                 serverPc, tokVars, cmdVars, cachedToken,
                 now, ticks, authFailures, caller, pipeVars, histVars,
                 repoDrs, hookReq, hookStatus, oldDrMap,
                 importedGoogleSheetsAdded, fetched>>

\* the same step in the server that imports setDrMap: loadDrMap settles for
\* drs.json, drMap is replaced and handed to the slack module with setDrMap
\* before the next await, and the changes are sent; when the load threw
\* neither mapping changes and the error is sent
PushDrsLoadedSetDrMap ==
  /\ serverPc = "listening"
  /\ importsSetDrMap
  /\ hookPc = "load"
  /\ \E fetchOk \in BOOLEAN :
       LET out == loadDrMapFromGitHub(DrsContent(fetchOk, repoDrs), drMap)
       IN  /\ drMap' = out.drMap
           /\ slackDrMap' = IF out.threw THEN slackDrMap
                             ELSE setDrMap(out.drMap, slackDrMap)
           /\ notifications' =
                Append(notifications,
                       IF out.threw \/ FormatThrows(oldDrMap, out.drMap)
                       THEN DrsErrorNotice
                       ELSE DrsNotice(formatDrMapChanges(oldDrMap, out.drMap)))
  /\ hookPc' = "notify_drs"
  /\ UNCHANGED <<callVars, isListsTest, tokenTtl, importsSetDrMap, serverPc,
                 tokVars, cmdVars, cachedToken,
                 now, ticks, authFailures, caller, pipeVars, histVars,
                 repoDrs, hookReq, hookStatus, oldDrMap,
                 importedGoogleSheetsAdded, fetched>>

\* the notification about drs.json settles: the handler goes on to the
\* added files
PushDrsNotified ==
  /\ serverPc = "listening"
  /\ hookPc = "notify_drs"
  /\ HandleAdditions
  /\ UNCHANGED <<callVars, envVars, tokVars, cmdVars, cachedToken, now, ticks,
                 authFailures, caller, pipeVars, histVars,
                 repoDrs, hookReq, hookStatus, oldDrMap,
                 notifications>>

\* getFileContent settles for the selected file: reloadList is called, or
\* the failure to fetch is sent
PushFileFetched ==
  /\ hookPc = "fetch"
  /\ \E c \in ContentChoices :
       IF ~ContentMissing(c)
       THEN /\ HandlerCallsReloadList(importedGoogleSheetsAdded[1], c.text)
            /\ UNCHANGED notifications
       ELSE /\ notifications' =
                 Append(notifications,
                        Notice("failed", FileNameOf(importedGoogleSheetsAdded[1]),
                               "", [kind |-> "content"]))
            /\ hookPc' = "notify"
            /\ UNCHANGED <<caller, pipeVars>>
  /\ UNCHANGED <<callVars, envVars, tokVars, cmdVars, cachedToken, now, ticks,
                 authFailures, histVars,
                 repoDrs, hookReq, hookStatus, oldDrMap,
                 importedGoogleSheetsAdded, fetched>>

(***************************************************************************)
(* The start of the process                                                *)
(***************************************************************************)
\* the callback of app.listen reads Object.keys(drMap.test) and
\* Object.keys(drMap.prod): a TypeError when a partition is missing
ListenCallbackThrows(map) == ~HasPartition(map, "test") \/ ~HasPartition(map, "prod")

\* process.on('SIGTERM') and process.on('SIGINT'): the signal arrives while
\* the process loads or listens, the handler calls process.exit(0) and
\* nothing of the process runs any more
Shutdown ==
  /\ serverPc \in {"loading", "listening"}
  /\ serverPc' = "stopped"
  /\ UNCHANGED <<callVars, isListsTest, tokenTtl, drMap, slackDrMap,
                 importsSetDrMap, hookVars, tokVars, cmdVars, cachedToken,
                 now, ticks, authFailures, caller, pipeVars, histVars>>

\* variant: the server listens whether or not the initial load succeeded
StartServerLoaded_ListensAnyway ==
  /\ ~importsSetDrMap
  /\ serverPc = "loading"
  /\ \E fetchOk \in BOOLEAN, file \in StartFiles :
       LET out == loadDrMapFromGitHub(DrsContent(fetchOk, file), drMap)
       IN  /\ drMap' = out.drMap
           /\ serverPc' =
                IF ~out.threw /\ ListenCallbackThrows(out.drMap) THEN "crashed"
                ELSE "listening"
  /\ UNCHANGED <<callVars, isListsTest, tokenTtl, slackDrMap, importsSetDrMap,
                 hookVars, tokVars, cmdVars, cachedToken,
                 now, ticks, authFailures, caller, pipeVars, histVars>>

\* startServer: the initial load settles; on failure the process exits, else
\* app.listen is called and its callback logs the sizes of the partitions
\* (an exception thrown by the callback is uncaught and ends the process);
\* the drMap of the slack module is not touched
StartServerLoaded ==
  /\ ~importsSetDrMap
  /\ serverPc = "loading"
  /\ \E fetchOk \in BOOLEAN, file \in StartFiles :
       LET out == loadDrMapFromGitHub(DrsContent(fetchOk, file), drMap)
       IN  /\ drMap' = out.drMap
           /\ serverPc' =
                IF out.threw THEN "exited"
                ELSE IF ListenCallbackThrows(out.drMap) THEN "crashed"
                ELSE "listening"
  /\ UNCHANGED <<callVars, isListsTest, tokenTtl, slackDrMap, importsSetDrMap,
                 hookVars, tokVars, cmdVars, cachedToken,
                 now, ticks, authFailures, caller, pipeVars, histVars>>

\* startServer of the server that imports setDrMap: the loaded mapping is
\* assigned and handed to the slack module with setDrMap before app.listen;
\* on failure the process exits with both mappings as they were
StartServerLoadedSetDrMap ==
  /\ importsSetDrMap
  /\ serverPc = "loading"
  /\ \E fetchOk \in BOOLEAN, file \in StartFiles :
       LET out == loadDrMapFromGitHub(DrsContent(fetchOk, file), drMap)
       IN  /\ drMap' = out.drMap
           /\ slackDrMap' = IF out.threw THEN slackDrMap
                             ELSE setDrMap(out.drMap, slackDrMap)
           /\ serverPc' =
                IF out.threw THEN "exited"
                ELSE IF ListenCallbackThrows(out.drMap) THEN "crashed"
                ELSE "listening"
  /\ UNCHANGED <<callVars, isListsTest, tokenTtl, importsSetDrMap,
                 hookVars, tokVars, cmdVars, cachedToken,
                 now, ticks, authFailures, caller, pipeVars, histVars>>

Next ==
  \/ CmdReload
  \/ CmdAfterAck
  \/ CmdSayReturns
  \/ CmdFindReturns
  \/ CmdFetchReturns
  \/ CmdUpdateOk
  \/ CmdUpdateFails
  \/ CmdReloadReturns
  \/ Tick
  \/ FileDelivery
  \/ WebhookReceive
  \/ PushFileFetched
  \/ PushReloadReturns
  \/ PushNotified
  \/ GetAccessTokenCached
  \/ GetAccessTokenFetch
  \/ TokenResponseOk
  \/ TokenResponseFail
  \/ ResolveList
  \/ IssueRequest
  \/ MetadataResponse
  \/ UploadResponse
  \/ IngestResponse
  \/ PollLoop
  \/ PollWake
  \/ ProgressResponse
  \/ ReloadListCatch

Spec == Init /\ [][Next]_vars

(***************************************************************************)
(* A reloadList run under the scheduling of the runtime: a continuation    *)
(* that is ready runs, a timer that was set fires, and every remote call   *)
(* eventually returns                                                      *)
(***************************************************************************)
RunStep ==
  \/ GetAccessTokenCached
  \/ GetAccessTokenFetch
  \/ TokenResponseOk
  \/ TokenResponseFail
  \/ ResolveList
  \/ IssueRequest
  \/ MetadataResponse
  \/ UploadResponse
  \/ IngestResponse
  \/ PollLoop
  \/ PollWake
  \/ ProgressResponse
  \/ ReloadListCatch

NextRun ==
  \/ Tick
  \/ FileDelivery
  \/ WebhookReceive
  \/ PushFileFetched
  \/ PushReloadReturns
  \/ PushNotified
  \/ GetAccessTokenCached
  \/ GetAccessTokenFetch
  \/ TokenResponseOk
  \/ TokenResponseFail
  \/ ResolveList
  \/ IssueRequest
  \/ MetadataResponse
  \/ UploadResponse
  \/ IngestResponse
  \/ PollLoop
  \/ PollWake
  \/ ProgressResponse
  \/ ReloadListCatch

\* the production environment with the sample mapping
InitRun ==
  /\ Init
  /\ ~isListsTest
  /\ drMap = SampleDrMap

SpecRun == InitRun /\ [][NextRun]_vars /\ WF_vars(RunStep)

(***************************************************************************)
(* One webhook delivery: the endpoint, the push handler and the run it     *)
(* starts, in the production environment with an empty token cache         *)
(***************************************************************************)
InitPush ==
  /\ isListsTest = FALSE
  /\ tokenTtl = 3600
  /\ drMap = SampleDrMap
  /\ serverPc = "listening"
  /\ slackDrMap = EmptyDrMap
  /\ importsSetDrMap = FALSE
  /\ cachedToken = NoToken
  /\ PipelineIdle
  /\ CallsIdle
  /\ HookIdle
  /\ repoDrs = OtherDrMap

NextPush ==
  \/ WebhookEndpoint
  \/ WebhookReceive
  \/ PushDrsLoaded
  \/ PushDrsNotified
  \/ PushFileFetched
  \/ PushReloadReturns
  \/ PushNotified
  \/ GetAccessTokenCached
  \/ GetAccessTokenFetch
  \/ TokenResponseOk
  \/ TokenResponseFail
  \/ ResolveList
  \/ IssueRequest
  \/ MetadataResponse
  \/ UploadResponse
  \/ IngestResponse
  \/ PollLoop
  \/ PollWake
  \/ ProgressResponse
  \/ ReloadListCatch

SpecPush == InitPush /\ [][NextPush]_vars

(***************************************************************************)
(* The webhook endpoint that answers after webhooks.verifyAndReceive, with *)
(* the push handler registered in the same module: the handler looks at    *)
(* the added files of any push, fetches the first one under an imported_   *)
(* folder and writes the payload to a file                                 *)
(***************************************************************************)
\* segment.startsWith('imported_')
StartsWithImported(segment) ==
  /\ Len(segment) >= Len("imported_")
  /\ SubSeq(segment, 1, Len("imported_")) = "imported_"

\* filename.split('/').some((segment) => segment.startsWith('imported_')):
\* the segments are the folder names and the file name; the file name is its
\* parts joined by '.', and the prefix holds no '.', so the file name starts
\* with the prefix when its first part does
isImportedFile(filename) ==
  \/ \E i \in 1..Len(filename.dirs) : StartsWithImported(filename.dirs[i])
  \/ filename.name # << >> /\ StartsWithImported(filename.name[1])

\* allAdded.filter(isImportedFile)
RECURSIVE FilterImported(_)
FilterImported(files) ==
  IF files = << >> THEN << >>
  ELSE IF isImportedFile(Head(files))
       THEN <<Head(files)>> \o FilterImported(Tail(files))
       ELSE FilterImported(Tail(files))

\* paths whose file name, or whose folder other than imported_GoogleSheets,
\* starts with imported_
ImportedNamePaths ==
  {[dirs |-> <<"other_GoogleSheets">>, name |-> <<"imported_x", "csv">>],
   [dirs |-> <<"imported_Other">>, name |-> <<"a", "csv">>],
   [dirs |-> << >>, name |-> <<"imported_">>]}

\* the requests to this endpoint: those of WebhookRequests, and verified
\* pushes to main that add one of ImportedNamePaths
ReceiveRequests ==
  WebhookRequests \cup
  {[signature |-> "valid", name |-> "push", ref |-> <<"refs/heads/", "main">>,
    commits |-> << [added |-> <<f>>, modified |-> << >>] >>] :
     f \in ImportedNamePaths}

\* a request arrives at /webhook: the endpoint awaits
\* webhooks.verifyAndReceive, which first verifies the signature
VerifyAndReceiveEndpoint ==
  /\ serverPc = "listening"
  /\ hookPc = "idle"
  /\ \E req \in ReceiveRequests : hookReq' = req
  /\ hookPc' = "verify"
  /\ UNCHANGED <<callVars, envVars, tokVars, cmdVars, cachedToken, now, ticks,
                 authFailures, caller, pipeVars, histVars,
                 repoDrs, hookStatus, oldDrMap,
                 importedGoogleSheetsAdded, notifications, fetched>>

\* the verification settles: a bad signature rejects verifyAndReceive and
\* the catch answers 400; else the push handler runs up to its first await,
\* the fetch of the first added imported_ file or, without one, the write
\* of the payload, and no response has been sent
VerifyAndReceiveVerified ==
  /\ hookPc = "verify"
  /\ IF hookReq.signature # "valid"
     THEN /\ hookStatus' = 400
          /\ hookPc' = "done"
          /\ UNCHANGED fetched
     ELSE LET importedAdded == FilterImported(Collect(hookReq.commits, "added"))
          IN  /\ IF Len(importedAdded) > 0
                 THEN /\ fetched' = Append(fetched, importedAdded[1])
                      /\ hookPc' = "first_added"
                 ELSE /\ hookPc' = "write_payload"
                      /\ UNCHANGED fetched
              /\ UNCHANGED hookStatus
  /\ UNCHANGED <<callVars, envVars, tokVars, cmdVars, cachedToken, now, ticks,
                 authFailures, caller, pipeVars, histVars,
                 repoDrs, hookReq, oldDrMap,
                 importedGoogleSheetsAdded, notifications>>

\* getFileContent settles for the first added file, with the content or
\* with null: the handler logs it, builds the message it does not send and
\* awaits the write of the payload
FirstAddedFetched ==
  /\ hookPc = "first_added"
  /\ hookPc' = "write_payload"
  /\ UNCHANGED <<callVars, envVars, tokVars, cmdVars, cachedToken, now, ticks,
                 authFailures, caller, pipeVars, histVars,
                 repoDrs, hookReq, hookStatus, oldDrMap,
                 importedGoogleSheetsAdded, notifications, fetched>>

\* fsp.writeFile settles: the handler returns, verifyAndReceive resolves and
\* the endpoint answers 200; or the write failed, verifyAndReceive rejects
\* and the catch answers 400
PayloadWritten ==
  /\ hookPc = "write_payload"
  /\ \E written \in BOOLEAN : hookStatus' = IF written THEN 200 ELSE 400
  /\ hookPc' = "done"
  /\ UNCHANGED <<callVars, envVars, tokVars, cmdVars, cachedToken, now, ticks,
                 authFailures, caller, pipeVars, histVars,
                 repoDrs, hookReq, oldDrMap,
                 importedGoogleSheetsAdded, notifications, fetched>>

\* the server is listening; it loads no mapping and mounts no commands
InitReceive ==
  /\ isListsTest = FALSE
  /\ tokenTtl = 3600
  /\ drMap = EmptyDrMap
  /\ serverPc = "listening"
  /\ slackDrMap = EmptyDrMap
  /\ importsSetDrMap = FALSE
  /\ cachedToken = NoToken
  /\ PipelineIdle
  /\ CallsIdle
  /\ HookIdle
  /\ repoDrs = EmptyDrMap

NextReceive ==
  \/ VerifyAndReceiveEndpoint
  \/ VerifyAndReceiveVerified
  \/ FirstAddedFetched
  \/ PayloadWritten

SpecReceive == InitReceive /\ [][NextReceive]_vars

(***************************************************************************)
(* The reload of drs.json by a push and the diff that is sent, over pairs  *)
(* of mappings: the delivery has been acknowledged and its processing is   *)
(* scheduled                                                               *)
(***************************************************************************)
InitDiff ==
  /\ isListsTest = FALSE
  /\ tokenTtl = 3600
  /\ drMap \in DiffDrMaps
  /\ serverPc = "listening"
  /\ slackDrMap = EmptyDrMap
  /\ importsSetDrMap = FALSE
  /\ cachedToken = NoToken
  /\ PipelineIdle
  /\ CallsIdle
  /\ hookPc = "immediate"
  /\ hookReq = DrsPush
  /\ hookStatus = 200
  /\ oldDrMap = EmptyDrMap
  /\ importedGoogleSheetsAdded = << >>
  /\ notifications = << >>
  /\ fetched = << >>
  /\ repoDrs \in DiffDrMaps

NextDiff ==
  \/ WebhookReceive
  \/ PushDrsLoaded
  \/ PushDrsNotified

SpecDiff == InitDiff /\ [][NextDiff]_vars

(***************************************************************************)
(* The process from its start: the initial load, then a /reload command    *)
(* and a push that changes drs.json, served in any interleaving, in the    *)
(* production environment.  The server that mounts the commands is either  *)
(* the one that only assigns its own drMap or the one that also calls      *)
(* setDrMap: importsSetDrMap is fixed when the process starts              *)
(***************************************************************************)
InitServe ==
  /\ isListsTest = FALSE
  /\ tokenTtl = 3600
  /\ drMap = EmptyDrMap
  /\ slackDrMap = EmptyDrMap
  /\ importsSetDrMap \in BOOLEAN
  /\ serverPc = "loading"
  /\ cachedToken = NoToken
  /\ PipelineIdle
  /\ CallsIdle
  /\ HookIdle
  /\ repoDrs \in DrsFiles

NextServe ==
  \/ Shutdown
  \/ StartServerLoaded
  \/ StartServerLoadedSetDrMap
  \/ DrsDelivery
  \/ WebhookReceive
  \/ PushDrsLoaded
  \/ PushDrsLoadedSetDrMap
  \/ PushDrsNotified
  \/ CmdReload
  \/ CmdAfterAck
  \/ CmdSayReturns
  \/ CmdFindReturns
  \/ CmdFetchReturns
  \/ CmdUpdateOk
  \/ CmdUpdateFails
  \/ CmdReloadReturns
  \/ GetAccessTokenCached
  \/ GetAccessTokenFetch
  \/ TokenResponseOk
  \/ TokenResponseFail
  \/ ResolveList
  \/ IssueRequest
  \/ MetadataResponse
  \/ UploadResponse
  \/ IngestResponse
  \/ PollLoop
  \/ PollWake
  \/ ProgressResponse
  \/ ReloadListCatch

SpecServe == InitServe /\ [][NextServe]_vars

(***************************************************************************)
(* getAccessToken on its own: any sequence of calls, over a cache left by  *)
(* an earlier call                                                         *)
(***************************************************************************)
InitToken ==
  /\ isListsTest = FALSE
  /\ tokenTtl \in TokenLifetimes
  /\ drMap = SampleDrMap
  /\ serverPc = "listening"
  /\ slackDrMap = drMap
  /\ importsSetDrMap = TRUE
  /\ cachedToken \in {NoToken} \cup EarlierTokens
  /\ PipelineIdle
  /\ CallsIdle
  /\ HookIdle
  /\ repoDrs = drMap

\* a caller awaits getAccessToken()
CallGetAccessToken ==
  /\ pc \in {"idle", "have_token", "catch"}
  /\ nReq.token < MaxTokenRequests
  /\ pc' = "call_token"
  /\ UNCHANGED <<callVars, envVars, hookVars, tokVars, cmdVars, cachedToken, now, ticks,
                 authFailures, caller,
                 stage, pName, pContent, pDrMap, tokNow, dataResourceUid,
                 speciesListID, localFile, completed, attempts, thrown,
                 result, histVars>>

NextToken ==
  \/ CallGetAccessToken
  \/ GetAccessTokenCached
  \/ GetAccessTokenFetch
  \/ TokenResponseOk
  \/ TokenResponseFail
  \/ Tick

SpecToken == InitToken /\ [][NextToken]_vars

(***************************************************************************)
(* findLatestFileForList on its own, over the answers the listing of the   *)
(* list's folder may get                                                   *)
(***************************************************************************)
\* the variables of the server, the pipeline, the commands and the deliveries
restVars ==
  <<envVars, hookVars, tokVars, cmdVars, cachedToken, now, ticks,
    authFailures, caller, pipeVars, histVars>>

\* the variables of the server, the pipeline and the commands
coreVars ==
  <<envVars, tokVars, cmdVars, cachedToken, now, ticks,
    authFailures, caller, pipeVars, histVars>>

\* the list whose folder is listed
FindList == "Foo"

\* names of entries of the folder, split at '.'
FolderNames ==
  {<<"2025-01-01", "csv">>, <<"2025-01-02", "csv", "gz">>, <<"a", "csv">>,
   <<"B", "csv">>, <<"notes", "txt">>}

\* one entry of the listing: its type, name and path
Entry(type, name) ==
  [type |-> type, name |-> name, path |-> PathOf(<<ImportRoot, FindList>>, name)]

Entries == {Entry(t, n) : t \in {"file", "dir"}, n \in FolderNames}

\* the answer to the contents request for the folder: the request fails, the
\* path is a file (an object), or it is a directory (an array of entries)
FolderListings ==
  {[kind |-> "error", entries |-> << >>], [kind |-> "object", entries |-> << >>]}
    \cup
  {[kind |-> "array", entries |-> es] :
     es \in {q \in UNION {[1..n -> Entries] : n \in 0..MaxListing} :
               \A i, j \in DOMAIN q : i # j => q[i].name # q[j].name}}

\* the position of a name in the order of String.prototype.localeCompare:
\* digits before letters, and a before B
LocaleRank(name) ==
  CASE name = <<"2025-01-01", "csv">> -> 1
    [] name = <<"2025-01-02", "csv", "gz">> -> 2
    [] name = <<"a", "csv">> -> 3
    [] name = <<"B", "csv">> -> 4
    [] name = <<"notes", "txt">> -> 5

\* a.localeCompare(b)
localeCompare(a, b) ==
  IF LocaleRank(a) < LocaleRank(b) THEN -1
  ELSE IF LocaleRank(a) > LocaleRank(b) THEN 1
  ELSE 0

\* variant: the type of the entry is not looked at
isCsvFile_AnyType(file) ==
  EndsWithExtension(file, <<"csv">>) \/ EndsWithExtension(file, <<"csv", "gz">>)

\* the predicate of the filter: a file whose name ends in .csv or .csv.gz
isCsvFile(file) ==
  /\ file.type = "file"
  /\ (EndsWithExtension(file, <<"csv">>)
        \/ EndsWithExtension(file, <<"csv", "gz">>))

\* response.data.filter(...)
RECURSIVE FilterCsvFiles(_)
FilterCsvFiles(list) ==
  IF list = << >> THEN << >>
  ELSE IF isCsvFile(Head(list))
  THEN <<Head(list)>> \o FilterCsvFiles(Tail(list))
  ELSE FilterCsvFiles(Tail(list))

\* file is put into a list sorted with (a, b) => b.name.localeCompare(a.name)
RECURSIVE InsertByName(_, _)
InsertByName(file, sorted) ==
  IF sorted = << >> THEN <<file>>
  ELSE IF localeCompare(Head(sorted).name, file.name) >= 0
  THEN <<Head(sorted)>> \o InsertByName(file, Tail(sorted))
  ELSE <<file>> \o sorted

\* .sort((a, b) => b.name.localeCompare(a.name)): latest name first
RECURSIVE SortByNameDescending(_)
SortByNameDescending(list) ==
  IF list = << >> THEN << >>
  ELSE InsertByName(Head(list), SortByNameDescending(Tail(list)))

\* findLatestFileForList, given the answer to the listing
findLatestFileForList(answer) ==
  IF answer.kind = "error" THEN JsNull
  ELSE IF answer.kind # "array" THEN JsNull
  ELSE LET csvFiles == SortByNameDescending(FilterCsvFiles(answer.entries))
       IN  IF csvFiles = << >> THEN JsNull
           ELSE [name |-> csvFiles[1].name, path |-> csvFiles[1].path]

\* the call of findLatestFileForList settles
FindLatestFileReturns ==
  /\ fnPc = "find"
  /\ fnPc' = "returned"
  /\ requests' = Append(requests, PathOf(<<ImportRoot>>, <<FindList>>))
  /\ returned' = findLatestFileForList(listing)
  /\ UNCHANGED <<restVars, listing, response, cleanPc, cleanText, deletes,
                 deliveries, pushMessage>>

InitFind ==
  /\ isListsTest = FALSE
  /\ tokenTtl = 3600
  /\ drMap = SampleDrMap
  /\ slackDrMap = drMap
  /\ importsSetDrMap = TRUE
  /\ serverPc = "listening"
  /\ cachedToken = NoToken
  /\ PipelineIdle
  /\ HookIdle
  /\ repoDrs = drMap
  /\ CleanIdle
  /\ deliveries = << >>
  /\ pushMessage = JsUndefined
  /\ fnPc = "find"
  /\ listing \in FolderListings
  /\ response = NoContents
  /\ returned = JsNull
  /\ requests = << >>

NextFind == FindLatestFileReturns

SpecFind == InitFind /\ [][NextFind]_vars

(***************************************************************************)
(* getFileContent on its own, over the answers of the contents request and *)
(* of the download                                                         *)
(*                                                                         *)
(* The bytes of a file are represented by the text they hold and by        *)
(* whether they are that text gzip-compressed.                             *)
(***************************************************************************)
PlainBytes == [gzip |-> FALSE, text |-> "rows"]

GzipBytes == [gzip |-> TRUE, text |-> "rows"]

NoBytes == [gzip |-> FALSE, text |-> ""]

\* response.data.content: the empty string, only whitespace, or the base64
\* text of the bytes of the file
InlineContents ==
  {[blank |-> TRUE, spaces |-> FALSE, bytes |-> NoBytes],
   [blank |-> TRUE, spaces |-> TRUE, bytes |-> NoBytes],
   [blank |-> FALSE, spaces |-> FALSE, bytes |-> PlainBytes],
   [blank |-> FALSE, spaces |-> FALSE, bytes |-> GzipBytes]}

\* the contents request for a path and its answer: the request fails, the
\* path is a directory (an array), or it is an object with a type, with or
\* without a content property, and with or without a download_url
ContentsAnswers ==
  {[path |-> p, kind |-> k, type |-> "file", hasContent |-> FALSE,
    content |-> [blank |-> TRUE, spaces |-> FALSE, bytes |-> NoBytes],
    download_url |-> FALSE] :
     p \in {FooCsv, FooCsvGz}, k \in {"error", "array"}}
    \cup
  {[path |-> p, kind |-> "object", type |-> t, hasContent |-> h,
    content |-> c, download_url |-> u] :
     p \in {FooCsv, FooCsvGz}, t \in {"file", "symlink", "submodule"},
     h \in BOOLEAN, c \in InlineContents, u \in BOOLEAN}

\* the answers to fetch(download_url): fetch rejects, the status is not ok,
\* or the body holds the bytes of the file
DownloadAnswers ==
  {[outcome |-> "rejects", body |-> NoBytes],
   [outcome |-> "notok", body |-> NoBytes],
   [outcome |-> "ok", body |-> PlainBytes],
   [outcome |-> "ok", body |-> GzipBytes]}

NoDownload == [outcome |-> "none", body |-> NoBytes]

\* a value computed by the body of a try block, or the fact that it threw
Value(v) == [threw |-> FALSE, value |-> v]

Thrown == [threw |-> TRUE, value |-> JsNull]

\* gunzipSync(buffer).toString('utf8'): throws unless the bytes are gzip data
Gunzip(bytes) == IF bytes.gzip THEN Value(JsString(bytes.text)) ELSE Thrown

\* buffer.toString('utf8') and downloadResponse.text(): the bytes read as text
Utf8(bytes) ==
  Value(JsString(IF bytes.gzip THEN "gzip bytes as text" ELSE bytes.text))

\* response.data.content && response.data.content.trim() !== ''
InlineAvailable(answer) == ~answer.content.blank

\* the try block of getFileContent, given the answer to the contents request
\* and the answer the download would get
getFileContentBody(answer, download) ==
  IF answer.kind = "error" THEN Thrown
  ELSE IF ~(answer.kind = "object" /\ answer.hasContent /\ answer.type = "file")
  THEN Value(JsNull)
  ELSE IF InlineAvailable(answer)
  THEN IF EndsWithExtension(answer.path, <<"csv", "gz">>)
       THEN Gunzip(answer.content.bytes)
       ELSE Utf8(answer.content.bytes)
  ELSE IF answer.download_url
  THEN IF download.outcome # "ok" THEN Thrown
       ELSE IF EndsWithExtension(answer.path, <<"csv", "gz">>)
       THEN Gunzip(download.body)
       ELSE Utf8(download.body)
  ELSE Value(JsNull)

\* the download is requested: the answer is a file without inline content
\* that has a download_url
Downloads(answer) ==
  /\ answer.kind = "object" /\ answer.hasContent /\ answer.type = "file"
  /\ ~InlineAvailable(answer)
  /\ answer.download_url

\* what the caller of the function gets: JsRaised stands for a rejection
JsRaised == [t |-> "raised", v |-> ""]

\* variant: the function has no catch block
getFileContent_NoCatch(answer, download) ==
  IF getFileContentBody(answer, download).threw THEN JsRaised
  ELSE getFileContentBody(answer, download).value

\* getFileContent: the value of the try block, or null from the catch block
getFileContent(answer, download) ==
  IF getFileContentBody(answer, download).threw THEN JsNull
  ELSE getFileContentBody(answer, download).value

\* the download the function has not asked for, or whose answer is pending
PendingDownload == [op |-> "download", answer |-> NoDownload]

\* the contents request settles: the function returns, or it asks for the
\* download_url with fetch and waits for the answer
GetContentSettles ==
  /\ fnPc = "get"
  /\ IF Downloads(response)
     THEN /\ requests' = <<[op |-> "getContent", answer |-> NoDownload],
                           PendingDownload>>
          /\ fnPc' = "download"
          /\ UNCHANGED returned
     ELSE /\ requests' = <<[op |-> "getContent", answer |-> NoDownload]>>
          /\ fnPc' = "returned"
          /\ returned' = getFileContent(response, NoDownload)
  /\ UNCHANGED <<restVars, listing, response, cleanPc, cleanText, deletes,
                 deliveries, pushMessage>>

\* fetch(download_url) settles: it rejected or the status is not ok, and
\* the function returns from its catch block; or the status is ok and the
\* function waits for the body (arrayBuffer() or text())
DownloadSettles ==
  /\ fnPc = "download"
  /\ \E d \in DownloadAnswers :
       /\ requests' = [requests EXCEPT ![2].answer = d]
       /\ IF d.outcome # "ok"
          THEN /\ fnPc' = "returned"
               /\ returned' = getFileContent(response, d)
          ELSE /\ fnPc' = "body"
               /\ UNCHANGED returned
  /\ UNCHANGED <<restVars, listing, response, cleanPc, cleanText, deletes,
                 deliveries, pushMessage>>

\* the body of the download settles: the function decodes it and returns,
\* or reading the body rejected and the function returns from its catch
\* block
DownloadBodySettles ==
  /\ fnPc = "body"
  /\ fnPc' = "returned"
  /\ \E read \in BOOLEAN :
       returned' =
         getFileContent(response,
                        IF read THEN requests[2].answer
                        ELSE [outcome |-> "rejects", body |-> NoBytes])
  /\ UNCHANGED <<restVars, listing, response, requests, cleanPc, cleanText,
                 deletes, deliveries, pushMessage>>

InitGet ==
  /\ isListsTest = FALSE
  /\ tokenTtl = 3600
  /\ drMap = SampleDrMap
  /\ slackDrMap = drMap
  /\ importsSetDrMap = TRUE
  /\ serverPc = "listening"
  /\ cachedToken = NoToken
  /\ PipelineIdle
  /\ HookIdle
  /\ repoDrs = drMap
  /\ CleanIdle
  /\ deliveries = << >>
  /\ pushMessage = JsUndefined
  /\ fnPc = "get"
  /\ listing = NoListing
  /\ response \in ContentsAnswers
  /\ returned = JsNull
  /\ requests = << >>

NextGet ==
  \/ GetContentSettles
  \/ DownloadSettles
  \/ DownloadBodySettles

SpecGet == InitGet /\ [][NextGet]_vars

(***************************************************************************)
(* The /clean command                                                      *)
(*                                                                         *)
(* command.text is a sequence of blanks, commas and timestamps.            *)
(***************************************************************************)
CleanTokens == {" ", ",", "1700000000.000100", "1700000000.000200"}

\* the texts of up to MaxCleanLen tokens
CleanTexts == UNION {[1..n -> CleanTokens] : n \in 0..MaxCleanLen}

\* String.prototype.split(','): the pieces between the commas, at least one
RECURSIVE SplitComma(_)
SplitComma(t) ==
  IF \A i \in DOMAIN t : t[i] # "," THEN <<t>>
  ELSE LET k == CHOOSE i \in DOMAIN t :
                  t[i] = "," /\ \A j \in 1..(i - 1) : t[j] # ","
       IN  <<SubSeq(t, 1, k - 1)>> \o SplitComma(SubSeq(t, k + 1, Len(t)))

\* command.text.trim().split(',')
TimeStampsOf(text) == SplitComma(Trim(text))

\* the command arrives and the handler awaits ack()
CleanCommand ==
  /\ serverPc = "listening"
  /\ cleanPc = "idle"
  /\ \E text \in CleanTexts : cleanText' = text
  /\ cleanPc' = "ack"
  /\ UNCHANGED <<restVars, fnPc, listing, response, returned, requests,
                 deletes, deliveries, pushMessage>>

\* after ack(): the text is split, and one chat.delete is called for each
\* piece within Promise.all, unless there is no piece
CleanAfterAck ==
  /\ cleanPc = "ack"
  /\ LET timeStamps == TimeStampsOf(cleanText)
     IN  IF Len(timeStamps) < 1
         THEN /\ cleanPc' = "done"
              /\ UNCHANGED deletes
         ELSE /\ cleanPc' = "deleting"
              /\ deletes' = [i \in DOMAIN timeStamps |->
                               [ts |-> timeStamps[i], status |-> "pending"]]
  /\ UNCHANGED <<restVars, fnPc, listing, response, returned, requests,
                 cleanText, deliveries, pushMessage>>

\* one chat.delete settles; Promise.all settles with the first rejection or
\* with the last success, and the handler ends
CleanDeleteSettles ==
  /\ cleanPc \in {"deleting", "done"}
  /\ \E i \in DOMAIN deletes, ok \in BOOLEAN :
       /\ deletes[i].status = "pending"
       /\ deletes' = [deletes EXCEPT ![i].status = IF ok THEN "ok" ELSE "failed"]
       /\ cleanPc' =
            IF ~ok \/ \A j \in DOMAIN deletes : j # i => deletes[j].status = "ok"
            THEN "done"
            ELSE cleanPc
  /\ UNCHANGED <<restVars, fnPc, listing, response, returned, requests,
                 cleanText, deliveries, pushMessage>>

InitClean ==
  /\ isListsTest = FALSE
  /\ tokenTtl = 3600
  /\ drMap = SampleDrMap
  /\ slackDrMap = drMap
  /\ importsSetDrMap = TRUE
  /\ serverPc = "listening"
  /\ cachedToken = NoToken
  /\ PipelineIdle
  /\ HookIdle
  /\ repoDrs = drMap
  /\ CallsIdle

NextClean ==
  \/ CleanCommand
  \/ CleanAfterAck
  \/ CleanDeleteSettles

SpecClean == InitClean /\ [][NextClean]_vars

(***************************************************************************)
(* Push deliveries that change drs.json, handled concurrently: each        *)
(* delivery carries its own revision of the file, and the handlers run in  *)
(* any interleaving of their awaits                                        *)
(***************************************************************************)
\* a verified push to main that changes drs.json arrives: it is answered and
\* its processing is scheduled with setImmediate
DeliveryArrives ==
  /\ serverPc = "listening"
  /\ Len(deliveries) < MaxDeliveries
  /\ \E file \in DrsFiles :
       deliveries' = Append(deliveries,
                            [pc |-> "immediate", file |-> file,
                             oldDrMap |-> EmptyDrMap])
  /\ UNCHANGED <<restVars, fnPc, listing, response, returned, requests,
                 cleanPc, cleanText, deletes, pushMessage>>

\* the scheduled callback of delivery k: the handler copies drMap and awaits
\* the load of drs.json at the revision of its push
DeliveryReceive(k) ==
  /\ k \in DOMAIN deliveries
  /\ deliveries[k].pc = "immediate"
  /\ deliveries' = [deliveries EXCEPT ![k].pc = "load", ![k].oldDrMap = drMap]
  /\ UNCHANGED <<restVars, fnPc, listing, response, returned, requests,
                 cleanPc, cleanText, deletes, pushMessage>>

\* the load of delivery k settles: drMap is replaced and the changes are
\* sent, or the load or the formatting threw and the error is sent
DeliveryLoaded(k) ==
  /\ k \in DOMAIN deliveries
  /\ deliveries[k].pc = "load"
  /\ \E fetchOk \in BOOLEAN :
       LET out == loadDrMapFromGitHub(DrsContent(fetchOk, deliveries[k].file),
                                      drMap)
       IN  /\ drMap' = out.drMap
           /\ notifications' =
                Append(notifications,
                       IF out.threw \/ FormatThrows(deliveries[k].oldDrMap, out.drMap)
                       THEN DrsErrorNotice
                       ELSE DrsNotice(formatDrMapChanges(deliveries[k].oldDrMap,
                                                         out.drMap)))
           /\ deliveries' =
                [deliveries EXCEPT ![k].pc =
                   IF out.threw THEN "notify_error" ELSE "notify_drs"]
  /\ UNCHANGED <<isListsTest, tokenTtl, slackDrMap, importsSetDrMap, serverPc,
                 tokVars, cmdVars, cachedToken,
                 now, ticks, authFailures, caller, pipeVars, histVars,
                 repoDrs, hookPc, hookReq, hookStatus, oldDrMap,
                 importedGoogleSheetsAdded, fetched,
                 fnPc, listing, response, returned, requests,
                 cleanPc, cleanText, deletes, pushMessage>>

\* the notification of delivery k settles: the push adds no file and the
\* handler ends
DeliveryNotified(k) ==
  /\ k \in DOMAIN deliveries
  /\ deliveries[k].pc \in {"notify_drs", "notify_error"}
  /\ deliveries' =
       [deliveries EXCEPT ![k].pc =
          IF deliveries[k].pc = "notify_drs" THEN "done" ELSE "done_error"]
  /\ UNCHANGED <<restVars, fnPc, listing, response, returned, requests,
                 cleanPc, cleanText, deletes, pushMessage>>

InitRace ==
  /\ isListsTest = FALSE
  /\ tokenTtl = 3600
  /\ drMap = SampleDrMap
  /\ slackDrMap = EmptyDrMap
  /\ importsSetDrMap = FALSE
  /\ serverPc = "listening"
  /\ cachedToken = NoToken
  /\ PipelineIdle
  /\ HookIdle
  /\ repoDrs = drMap
  /\ CallsIdle

NextRace ==
  \/ DeliveryArrives
  \/ \E k \in 1..MaxDeliveries : DeliveryReceive(k)
  \/ \E k \in 1..MaxDeliveries : DeliveryLoaded(k)
  \/ \E k \in 1..MaxDeliveries : DeliveryNotified(k)

SpecRace == InitRace /\ [][NextRace]_vars

(***************************************************************************)
(* The push handler that reports through one message (part_002:322-458):   *)
(* it looks the list up itself, posts a message for the selected file and  *)
(* passes what sendSlackNotification returned to updateReloadMessage.      *)
(* A delivery that does not change drs.json has been acknowledged and its  *)
(* processing is scheduled.                                                *)
(***************************************************************************)
\* verified pushes that leave drs.json alone
BlocksPushes ==
  {req \in WebhookRequests :
     req.signature = "valid" /\ ~drJsonModified(req.commits)}

\* the blocks of the message posted for the pushed file
BlocksNotice(folder, uid, lines) ==
  [kind |-> "blocks", folder |-> folder, uid |-> uid, lines |-> lines]

\* what `await sendSlackNotification(...)` evaluates to: the function has no
\* return statement
sendSlackNotificationResult == JsUndefined

\* updateReloadMessage reads message.ts and message.channel: a TypeError
\* when message is undefined
UpdateReloadMessageThrows(msg) == msg = JsUndefined

\* the handler up to its first await: the branch test, the filter of the
\* added files, the lookup of the list and the post of the message
PushBlocksReceive ==
  /\ hookPc = "immediate"
  /\ ~drJsonModified(hookReq.commits)
  /\ LET selected == importedGoogleSheetsAddedOf(hookReq.commits)
         folder == getParentFolderName(selected[1])
         part == EnvironmentKey(isListsTest)
     IN  IF hookReq.name # "push" \/ BranchOf(hookReq.ref) # <<"main">>
         THEN /\ hookPc' = "done"
              /\ UNCHANGED <<importedGoogleSheetsAdded, notifications>>
         ELSE /\ importedGoogleSheetsAdded' = selected
              /\ IF selected = << >> \/ ~Truthy(folder)
                 THEN /\ hookPc' = "done"
                      /\ UNCHANGED notifications
                 ELSE IF ~HasPartition(drMap, part)
                 THEN /\ hookPc' = "rejected"
                      /\ UNCHANGED notifications
                 ELSE IF ~Truthy(PropertyRead(drMap[part], folder.v))
                 THEN /\ hookPc' = "done"
                      /\ UNCHANGED notifications
                 ELSE /\ hookPc' = "announce"
                      /\ notifications' =
                           Append(notifications,
                                  BlocksNotice(folder.v,
                                               PropertyRead(drMap[part], folder.v),
                                               <<Line("pushed", NoError)>>))
  /\ UNCHANGED <<callVars, envVars, tokVars, cmdVars, cachedToken, now, ticks,
                 authFailures, caller, pipeVars, histVars,
                 repoDrs, hookReq, hookStatus, oldDrMap, fetched>>

\* sendSlackNotification settles: its value is kept as the message, and
\* getFileContent is called for the selected file
PushBlocksAnnounced ==
  /\ hookPc = "announce"
  /\ pushMessage' = sendSlackNotificationResult
  /\ fetched' = Append(fetched, importedGoogleSheetsAdded[1])
  /\ hookPc' = "fetch"
  /\ UNCHANGED <<coreVars, repoDrs, hookReq, hookStatus, oldDrMap,
                 importedGoogleSheetsAdded, notifications,
                 fnPc, listing, response, returned, requests,
                 cleanPc, cleanText, deletes, deliveries>>

\* getFileContent settles: with or without content the next statement is a
\* call of updateReloadMessage(message, ...) inside the try block, and the
\* catch block calls it again; when these throw the handler rejects before
\* reloadList is called and before any update is sent
PushBlocksFetched ==
  /\ hookPc = "fetch"
  /\ \E c \in ContentChoices :
       hookPc' = IF UpdateReloadMessageThrows(pushMessage) THEN "rejected"
                 ELSE IF ContentMissing(c) THEN "update_failed"
                 ELSE "update_start"
  /\ UNCHANGED <<callVars, envVars, tokVars, cmdVars, cachedToken, now, ticks,
                 authFailures, caller, pipeVars, histVars,
                 repoDrs, hookReq, hookStatus, oldDrMap,
                 importedGoogleSheetsAdded, notifications, fetched>>

InitBlocks ==
  /\ isListsTest = FALSE
  /\ tokenTtl = 3600
  /\ drMap \in DrMaps
  /\ slackDrMap = drMap
  /\ importsSetDrMap = TRUE
  /\ serverPc = "listening"
  /\ cachedToken = NoToken
  /\ PipelineIdle
  /\ CallsIdle
  /\ hookPc = "immediate"
  /\ hookReq \in BlocksPushes
  /\ hookStatus = 200
  /\ oldDrMap = EmptyDrMap
  /\ importedGoogleSheetsAdded = << >>
  /\ notifications = << >>
  /\ fetched = << >>
  /\ repoDrs = drMap

NextBlocks ==
  \/ PushBlocksReceive
  \/ PushBlocksAnnounced
  \/ PushBlocksFetched

SpecBlocks == InitBlocks /\ [][NextBlocks]_vars

(***************************************************************************)
(* Shorthands of the properties                                            *)
(***************************************************************************)
\* the value the run's lookup drMap[environment][parentFolderName] yields
RunLookup == PropertyRead(pDrMap[EnvironmentKey(isListsTest)], pName)

\* the lookup yields nothing usable: undefined or the empty string
NothingFound(v) == v.t = "undef" \/ (v.t = "str" /\ v.v = "")

\* the upload response carries at least one validation error
UploadCarriesErrors ==
  /\ resp.upload # NoResponse
  /\ resp.upload.validationErrors.present
  /\ resp.upload.validationErrors.items # << >>

\* a progress response of this run reported completed = true
ReportedCompleted ==
  /\ ResponseOk(lastProgress.status)
  /\ lastProgress.completed

\* the stage request was answered with a non-success status
AnsweredNotOk(s) == resp[s] # NoResponse /\ ~ResponseOk(resp[s].status)

(***************************************************************************)
(* C1: in a reloadList run the metadata, upload and ingest calls are each  *)
(* issued at most once, a stage's call is issued only after the previous   *)
(* stage was answered with success (metadata after the resolution), and a  *)
(* run that completes has issued every call: metadata, upload and ingest   *)
(* once, and at least one progress check.                                  *)
(***************************************************************************)
C1_StagesInOrder ==
  /\ nReq.metadata <= 1
  /\ nReq.upload <= 1
  /\ nReq.ingest <= 1
  /\ nReq.metadata > 0 => ~NothingFound(RunLookup)
  /\ nReq.upload > 0 => "metadata" \in okStages
  /\ nReq.ingest > 0 => "upload" \in okStages
  /\ nReq.progress > 0 => "ingest" \in okStages
  /\ (pc = "done" /\ result = NoError) =>
       /\ nReq.metadata = 1
       /\ nReq.upload = 1
       /\ nReq.ingest = 1
       /\ nReq.progress >= 1

C1_Witness == pc = "done" /\ result = NoError /\ nReq.progress >= 2

(***************************************************************************)
(* C2: once a stage of a run has failed (the initial token fetch, the      *)
(* resolution, the metadata, upload or ingest call, the upload validation, *)
(* or the poll timeout) the run issues no further request, and reloadList  *)
(* rejects with exactly the error of that stage; it never resolves.        *)
(***************************************************************************)
C2_FailureIsThrown ==
  /\ \A s \in {"metadata", "upload", "ingest"} :
       AnsweredNotOk(s) =>
         thrown.kind = "http" /\ thrown.step = s /\ thrown.status = resp[s].status
  /\ (UploadCarriesErrors /\ ResponseOk(resp.upload.status)) =>
       thrown.kind = "validation"
  /\ authFailStage \in {"acquire", "metadata", "upload", "ingest"} =>
       thrown.kind = "auth"
  /\ (stage = "acquire" /\ pc \in {"catch", "done"} /\ authFailStage = "none") =>
       thrown.kind = "unknownList"
  /\ (stage = "poll" /\ pc = "done" /\ ~completed) => thrown.kind = "timeout"

C2_StageErrorAborts ==
  [][ /\ C2_FailureIsThrown'
      /\ thrown # NoError => (nReq' = nReq /\ thrown' = thrown)
      /\ (thrown' # NoError /\ pc' = "done") => result' = thrown' ]_vars

C2_Witness ==
  /\ pc = "done"
  /\ result.kind = "http"
  /\ result.step = "ingest"
  /\ nReq.progress = 0

(***************************************************************************)
(* C3: resolution is the first step of a run: a run whose list name has no *)
(* entry in the partition of the active environment issues no request at   *)
(* all, the token endpoint included, and fails with the unknown-list       *)
(* error, whatever the token endpoint would have answered.                 *)
(***************************************************************************)
C3_ResolutionFirst ==
  (caller # "none" /\ ~HasOwn(pDrMap[EnvironmentKey(isListsTest)], pName)) =>
    /\ TotalRequests = 0
    /\ pc = "done" => result.kind = "unknownList"

(***************************************************************************)
(* C4: a /reload command with a non-empty list name that has no entry in   *)
(* the partition of the active environment is answered with the            *)
(* list-not-found message, starts no pipeline run and issues no request to *)
(* the token endpoint or the list-management API.                          *)
(***************************************************************************)
C4_UnknownListReply ==
  (/\ cmdPc \notin {"idle", "ack"}
   /\ listName # ""
   /\ ~HasOwn(drMap[EnvironmentKey(isListsTest)], listName)) =>
    /\ said = <<"notfound">>
    /\ caller = "none"
    /\ TotalRequests = 0

(***************************************************************************)
(* C5: the unknown-list error names the requested list and lists the list  *)
(* names of the partition (test or prod) in which the lookup was made.     *)
(***************************************************************************)
C5_AvailableNamesOfSamePartition ==
  thrown.kind = "unknownList" =>
    /\ thrown.name = pName
    /\ thrown.available = ObjectKeys(pDrMap[EnvironmentKey(isListsTest)])

(***************************************************************************)
(* C6 as stated: whenever the upload response carries validation errors,   *)
(* whatever its HTTP status, the ingest endpoint is never called and the   *)
(* run fails with the error listing each message numbered from 1.          *)
(***************************************************************************)
C6_ValidationAlwaysListed ==
  UploadCarriesErrors =>
    /\ nReq.ingest = 0
    /\ pc = "done" =>
         /\ result.kind = "validation"
         /\ result.lines =
              [i \in 1..Len(resp.upload.validationErrors.items) |->
                 <<i, resp.upload.validationErrors.items[i]>>]

(***************************************************************************)
(* C6 as amended: whenever the upload response carries validation errors,  *)
(* whatever its HTTP status, the run fails and the ingest endpoint is      *)
(* never called.  With a success status the error lists each message       *)
(* numbered from 1; with a non-success status the error is the upload's    *)
(* HTTP failure carrying the status and the response body.                 *)
(***************************************************************************)
C6_ValidationAborts ==
  UploadCarriesErrors =>
    /\ nReq.ingest = 0
    /\ nReq.progress = 0
    /\ pc = "done" =>
         IF ResponseOk(resp.upload.status)
         THEN /\ result.kind = "validation"
              /\ result.lines =
                   [i \in 1..Len(resp.upload.validationErrors.items) |->
                      <<i, resp.upload.validationErrors.items[i]>>]
         ELSE /\ result.kind = "http"
              /\ result.step = "upload"
              /\ result.status = resp.upload.status
              /\ result.body = resp.upload.validationErrors

C6_Witness ==
  /\ pc = "done"
  /\ result.kind = "validation"
  /\ Len(result.lines) = 2
  /\ nReq.ingest = 0

(***************************************************************************)
(* C7: once a progress response has reported completed = true, the run     *)
(* issues no further request and makes no further attempt, and it ends     *)
(* with success.                                                           *)
(***************************************************************************)
C7_StopsAtFirstCompleted ==
  [][ /\ ReportedCompleted =>
           (nReq' = nReq /\ attempts' = attempts /\ lastProgress' = lastProgress)
      /\ ReportedCompleted' =>
           (completed' /\ thrown' = NoError /\ pc' \in {"loop", "done"})
      /\ (ReportedCompleted' /\ pc' = "done") => result' = NoError ]_vars

C7_Witness ==
  /\ pc = "done"
  /\ result = NoError
  /\ ReportedCompleted
  /\ attempts = 3
  /\ nReq.progress = 3

(***************************************************************************)
(* C8: waitForIngestionCompletion makes at most 120 attempts; when 120     *)
(* attempts have passed without a response reporting completed = true it   *)
(* fails with the timeout error, which reports 120 attempts and 600        *)
(* seconds.                                                                *)
(***************************************************************************)
C8_AtMost120Attempts ==
  /\ attempts <= 120
  /\ nReq.progress <= attempts
  /\ thrown.kind = "timeout" =>
       /\ thrown.attempts = 120
       /\ thrown.seconds = 600
       /\ ~completed
  /\ (stage = "poll" /\ pc = "done" /\ ~completed) =>
       /\ result.kind = "timeout"
       /\ attempts = 120

C8_Witness ==
  /\ pc = "done"
  /\ result.kind = "timeout"
  /\ nReq.progress = 120

(***************************************************************************)
(* C9: a progress check answered with a non-success status does not abort  *)
(* polling: nothing is thrown, the attempt stays counted, and while fewer  *)
(* than 120 attempts have been made the loop goes on to its next attempt.  *)
(***************************************************************************)
C9_NonSuccessPollContinues ==
  [][ /\ (/\ stage = "poll"
          /\ pc = "await_fetch"
          /\ pc' # "await_fetch"
          /\ ~ResponseOk(lastProgress'.status)) =>
           /\ pc' = "loop"
           /\ attempts' = attempts
           /\ attempts' >= nReq'.progress
           /\ thrown' = NoError
           /\ completed' = completed
      /\ (/\ pc = "loop"
          /\ ~ResponseOk(lastProgress.status)
          /\ ~completed
          /\ attempts < 120
          /\ pc' # "loop") => pc' = "sleep" ]_vars

C9_Witness ==
  /\ pc = "await_fetch"
  /\ stage = "poll"
  /\ lastProgress.status = 503
  /\ attempts = 2

(***************************************************************************)
(* C10: a credential fetch failure in any stage (metadata, upload, ingest  *)
(* or a poll attempt) aborts the run there with the authentication error:  *)
(* no request is issued after it.                                          *)
(***************************************************************************)
C10_AuthFailureAborts ==
  [][ /\ authFailStage # "none" => nReq' = nReq
      /\ (authFailStage' # "none" /\ pc' = "done") => result'.kind = "auth" ]_vars

(***************************************************************************)
(* C11: a getAccessToken call returns the cached token, without a request  *)
(* to the token endpoint and without touching the cache, exactly when a    *)
(* token is cached and now < expires_at - 5 minutes (a token expiring in   *)
(* 10 minutes is reused, one expiring in 4 minutes is not); otherwise it   *)
(* issues one token request, and the token it then returns is the one the  *)
(* endpoint answered with.                                                 *)
(***************************************************************************)
C11_CacheRule ==
  [][ /\ (pc = "call_token" /\ pc' # "call_token") =>
           IF cachedToken.set /\ now < cachedToken.expires_at - 5 * 60 * 1000
           THEN /\ pc' = "have_token"
                /\ accessToken' = cachedToken.access_token
                /\ nReq'.token = nReq.token
                /\ cachedToken' = cachedToken
           ELSE /\ pc' = "await_token"
                /\ nReq'.token = nReq.token + 1
      /\ (pc = "call_token" /\ cachedToken.set /\ now = 0) =>
           /\ cachedToken.expires_at = 600000 => pc' \in {"call_token", "have_token"}
           /\ cachedToken.expires_at = 240000 => pc' \in {"call_token", "await_token"}
      /\ (pc = "await_token" /\ pc' = "have_token") =>
           /\ nReq'.token = nReq.token
           /\ ResponseOk(tokenResp'.status)
           /\ accessToken' = tokenResp'.access_token ]_vars

C11_Witness ==
  /\ pc = "have_token"
  /\ nReq.token = 0
  /\ accessToken = "tok0"
  /\ cachedToken.expires_at = 600000
  /\ now = TickMs

(***************************************************************************)
(* C12: when the token endpoint answers with a non-success status,         *)
(* getAccessToken fails with an error carrying that status and the         *)
(* response body and leaves the cached token as it was; the cached token   *)
(* changes only when a token request is answered with success, to the      *)
(* token of that answer.                                                   *)
(***************************************************************************)
C12_FailureKeepsCache ==
  [][ /\ (pc = "await_token" /\ pc' \notin {"await_token", "have_token"}) =>
           /\ ~ResponseOk(tokenResp'.status)
           /\ pc' = "catch"
           /\ thrown' = [kind |-> "auth", status |-> tokenResp'.status,
                         body |-> tokenResp'.body]
           /\ cachedToken' = cachedToken
      /\ cachedToken' # cachedToken =>
           /\ pc = "await_token"
           /\ pc' = "have_token"
           /\ ResponseOk(tokenResp'.status)
           /\ cachedToken' = [set |-> TRUE,
                              access_token |-> tokenResp'.access_token,
                              expires_at |-> tokNow + tokenResp'.expires_in * 1000] ]_vars

C12_Witness ==
  /\ pc = "catch"
  /\ thrown.kind = "auth"
  /\ thrown.status = 401
  /\ cachedToken.set
  /\ cachedToken.access_token = "tok0"

(***************************************************************************)
(* C13: a reload is reported as successful (reloadList resolves, the push  *)
(* handler passes the completed notification to chat, the /reload handler  *)
(* adds the completed line) only if a progress response of that run        *)
(* reported completed = true; the ingest call being accepted is not        *)
(* enough.                                                                 *)
(***************************************************************************)
C13_SuccessNeedsCompleted ==
  /\ (pc = "done" /\ result = NoError) => ReportedCompleted
  /\ \A i \in 1..Len(notifications) :
       notifications[i].kind = "completed" => ReportedCompleted
  /\ \A i \in 1..Len(messages) :
       messages[i].line = "completed" => ReportedCompleted
  /\ ("ingest" \in okStages /\ ~ReportedCompleted) =>
       ~(pc = "done" /\ result = NoError)

C13_Witness ==
  /\ Len(notifications) = 1
  /\ notifications[1].kind = "completed"
  /\ nReq.progress = 2
  /\ "ingest" \in okStages

(***************************************************************************)
(* C14: every reloadList run terminates: once reloadList has been called,  *)
(* and provided every remote call returns, the run settles (with success   *)
(* or with an error), after at most 120 poll attempts.                     *)
(***************************************************************************)
C14_RunTerminates ==
  (caller = "push") ~> (pc = "done" /\ attempts <= 120)

C14_Witness ==
  /\ pc = "done"
  /\ result.kind = "timeout"
  /\ authFailStage = "poll"
  /\ nReq.progress = 119

(***************************************************************************)
(* Shorthands of the properties of the diff                                *)
(***************************************************************************)
\* the diff of drs.json has been sent
DrsChangesSent == notifications # << >> /\ notifications[1].kind = "drs"

\* the entries reported for a partition ("No changes" is no entry)
ReportedChanges(part) ==
  LET c == notifications[1].changes[part]
  IN  IF c = <<NoChanges>> THEN << >> ELSE c

\* the number of entries of a kind for a key
CountOf(ch, kind, key) ==
  Cardinality({i \in 1..Len(ch) : ch[i].kind = kind /\ ch[i].key = key})

\* the position of a key in the iteration order of a partition
IndexOf(section, key) == CHOOSE i \in 1..Len(section) : section[i][1] = key

\* the place of an entry in the order: additions and changes by the new
\* partition's order, then removals by the old partition's order
Rank(e, old, new) ==
  IF e.kind \in {"Added", "Changed"}
  THEN IndexOf(new, e.key)
  ELSE Len(new) + IndexOf(old, e.key)

\* the push changed nothing but the value of Foo in the partition `part`
OnlyFooChanged(part, other) ==
  LET old == oldDrMap[part]
      new == drMap[part]
  IN  /\ oldDrMap[other] = drMap[other]
      /\ Len(old) = Len(new)
      /\ \E i \in 1..Len(old) :
           /\ old[i][1] = "Foo"
           /\ new[i][1] = "Foo"
           /\ old[i][2] # new[i][2]
           /\ \A j \in 1..Len(old) : j # i => old[j] = new[j]

FooChange(part) ==
  Change("Changed", "Foo", JsString(OwnValue(oldDrMap[part], "Foo")),
         JsString(OwnValue(drMap[part], "Foo")))

(***************************************************************************)
(* C15: for every pair of partitions (old, new) the diff has exactly one   *)
(* Added entry for each key only in new, exactly one Removed entry for     *)
(* each key only in old, exactly one Changed entry, recording both values, *)
(* for each key in both with different values, and no entry for any other  *)
(* key.                                                                    *)
(***************************************************************************)
C15_DiffExact ==
  DrsChangesSent =>
    \A part \in {"prod", "test"} :
      LET old == oldDrMap[part]
          new == drMap[part]
          ch == ReportedChanges(part)
          keys == {old[i][1] : i \in 1..Len(old)} \cup {new[i][1] : i \in 1..Len(new)}
      IN  /\ \A i \in 1..Len(ch) : ch[i].key \in keys
          /\ \A k \in keys :
               LET inOld == \E i \in 1..Len(old) : old[i][1] = k
                   inNew == \E i \in 1..Len(new) : new[i][1] = k
               IN  /\ CountOf(ch, "Added", k) = IF inNew /\ ~inOld THEN 1 ELSE 0
                   /\ CountOf(ch, "Removed", k) = IF inOld /\ ~inNew THEN 1 ELSE 0
                   /\ CountOf(ch, "Changed", k) =
                        IF inOld /\ inNew /\ OwnValue(old, k) # OwnValue(new, k)
                        THEN 1 ELSE 0
                   /\ \A i \in 1..Len(ch) :
                        (ch[i].kind = "Changed" /\ ch[i].key = k) =>
                          /\ ch[i].old = JsString(OwnValue(old, k))
                          /\ ch[i].new = JsString(OwnValue(new, k))

(***************************************************************************)
(* C16: the entries of a diff are ordered: the additions and changes come  *)
(* first, in the iteration order of the new partition's entries, and the   *)
(* removals follow, in the iteration order of the old partition's entries. *)
(***************************************************************************)
C16_DiffOrder ==
  DrsChangesSent =>
    \A part \in {"prod", "test"} :
      LET ch == ReportedChanges(part)
      IN  \A i, j \in 1..Len(ch) :
            i < j => Rank(ch[i], oldDrMap[part], drMap[part])
                       < Rank(ch[j], oldDrMap[part], drMap[part])

C16_Witness ==
  /\ DrsChangesSent
  /\ Len(ReportedChanges("prod")) = 4
  /\ ReportedChanges("prod")[1].kind = "Changed"
  /\ ReportedChanges("prod")[2].kind = "Added"
  /\ ReportedChanges("prod")[3].kind = "Removed"
  /\ ReportedChanges("prod")[4].kind = "Removed"

(***************************************************************************)
(* C17: the diff is computed for each partition on its own: when a push    *)
(* changes nothing but the value of prod.Foo, the message has the one      *)
(* Changed entry for Foo in its production section and "No changes" in its *)
(* testing section; and the other way round for a change of test.Foo.      *)
(***************************************************************************)
C17_PerPartition ==
  DrsChangesSent =>
    /\ OnlyFooChanged("prod", "test") =>
         notifications[1].changes =
           [prod |-> <<FooChange("prod")>>, test |-> <<NoChanges>>]
    /\ OnlyFooChanged("test", "prod") =>
         notifications[1].changes =
           [prod |-> <<NoChanges>>, test |-> <<FooChange("test")>>]

C17_Witness ==
  /\ DrsChangesSent
  /\ OnlyFooChanged("prod", "test")
  /\ Len(drMap.prod) = 2
  /\ notifications[1].changes.test = <<NoChanges>>
  /\ Len(notifications[1].changes.prod) = 1

(***************************************************************************)
(* Shorthands of the properties of the webhook adapter                     *)
(***************************************************************************)
\* the push handler has filtered the added files of the delivery
FilterApplied ==
  /\ hookStatus = 200
  /\ hookReq.name = "push"
  /\ hookReq.ref = <<"refs/heads/", "main">>
  /\ hookPc \in {"fetch", "reload", "notify", "done"}

\* the added paths of all commits of the delivery, in order
AddedOfDelivery ==
  IF Len(hookReq.commits) = 0 THEN << >>
  ELSE IF Len(hookReq.commits) = 1 THEN hookReq.commits[1].added
  ELSE hookReq.commits[1].added \o hookReq.commits[2].added

\* the path has the shape imported_GoogleSheets/<listName>/<file>.csv[.gz]
MonitoredShape(f) ==
  /\ Len(f.dirs) = 2
  /\ f.dirs[1] = "imported_GoogleSheets"
  /\ \/ Len(f.name) >= 2 /\ f.name[Len(f.name)] = "csv"
     \/ /\ Len(f.name) >= 3
        /\ f.name[Len(f.name) - 1] = "csv"
        /\ f.name[Len(f.name)] = "gz"

\* the positions of the added paths that have the monitored shape
MonitoredPositions ==
  {i \in 1..Len(AddedOfDelivery) : MonitoredShape(AddedOfDelivery[i])}

FirstMonitored ==
  AddedOfDelivery[CHOOSE i \in MonitoredPositions :
                    \A j \in MonitoredPositions : i <= j]

(***************************************************************************)
(* C18: the filter of the added files accepts exactly the paths of shape   *)
(* imported_GoogleSheets/<listName>/<file> whose name ends in .csv or      *)
(* .csv.gz: what it keeps has that shape (a path directly under            *)
(* imported_GoogleSheets/ or under another root is rejected), and an added *)
(* path of that shape is never filtered out.                               *)
(***************************************************************************)
C18_FilterAcceptsShape ==
  FilterApplied =>
    /\ \A i \in 1..Len(importedGoogleSheetsAdded) :
         MonitoredShape(importedGoogleSheetsAdded[i])
    /\ MonitoredPositions # {} => importedGoogleSheetsAdded # << >>

(***************************************************************************)
(* C19: a push delivery to main starts at most one pipeline run, and       *)
(* whenever its added files contain a path of the monitored shape, the     *)
(* file that is processed (fetched and handed to reloadList) is the first  *)
(* such path.                                                              *)
(***************************************************************************)
C19_FirstMonitoredProcessed ==
  /\ Cardinality({i \in 1..Len(fetched) : fetched[i] # DrsJson}) <= 1
  /\ (FilterApplied /\ MonitoredPositions # {}) =>
       /\ \E i \in 1..Len(fetched) : fetched[i] = FirstMonitored
       /\ caller = "push" => pName = FirstMonitored.dirs[2]

(***************************************************************************)
(* C20: a webhook request whose signature does not verify is answered 401  *)
(* and is not processed: the push handler does not run, the mapping is not *)
(* reloaded, no content is fetched, no pipeline run starts and no chat     *)
(* message is sent.                                                        *)
(***************************************************************************)
C20_BadSignatureRejected ==
  hookReq.signature = "invalid" =>
    /\ hookStatus = 401
    /\ hookPc = "done"
    /\ drMap = SampleDrMap
    /\ oldDrMap = EmptyDrMap
    /\ fetched = << >>
    /\ caller = "none"
    /\ TotalRequests = 0
    /\ notifications = << >>

(***************************************************************************)
(* Shorthands of the properties of a delivery                              *)
(***************************************************************************)
\* the delivery is a push whose ref is not the main branch
OtherBranchPush(req) ==
  req.name = "push" /\ req.ref # << >> /\ req.ref # <<"refs/heads/", "main">>

\* the delivery is a push to main that adds or modifies drs.json
DrsPushedToMain ==
  /\ hookStatus = 200
  /\ hookReq.name = "push"
  /\ hookReq.ref = <<"refs/heads/", "main">>
  /\ drJsonModified(hookReq.commits)

\* the push handler of the delivery has started some work
ProcessingBegun ==
  \/ hookPc \in {"load", "notify_drs", "fetch", "reload", "notify"}
  \/ oldDrMap # EmptyDrMap
  \/ fetched # << >>
  \/ notifications # << >>
  \/ caller # "none"
  \/ TotalRequests > 0

(***************************************************************************)
(* C21: a webhook request with a valid signature is acknowledged with 200  *)
(* before the push handler begins: from the moment its signature is        *)
(* verified the response is sent, so no configuration reload, content      *)
(* fetch, pipeline stage or notification of the delivery happens before    *)
(* the acknowledgement and the acknowledgement waits for none of them;     *)
(* while the processing has not been started nothing of it has happened.   *)
(***************************************************************************)
C21_AckBeforeProcessing ==
  hookReq.signature = "valid" =>
    /\ hookPc # "verify" => hookStatus = 200
    /\ hookPc \in {"verify", "immediate"} => ~ProcessingBegun

(***************************************************************************)
(* C22: a push for a branch other than main changes nothing: no step of    *)
(* its delivery changes the active mapping, fetches content, starts a      *)
(* pipeline run or sends a notification, even when the push adds a         *)
(* monitored file or changes drs.json.                                     *)
(***************************************************************************)
C22_OtherBranchIgnored ==
  [][OtherBranchPush(hookReq') =>
       /\ drMap' = drMap
       /\ oldDrMap' = oldDrMap
       /\ fetched' = fetched
       /\ notifications' = notifications
       /\ caller' = caller
       /\ pc' = pc
       /\ nReq' = nReq]_vars

C22_Witness ==
  /\ OtherBranchPush(hookReq)
  /\ hookStatus = 200
  /\ hookPc = "done"
  /\ drJsonModified(hookReq.commits)
  /\ importedGoogleSheetsAddedOf(hookReq.commits) = <<FooCsv>>

(***************************************************************************)
(* C23: when a push to main both changes drs.json and adds a monitored     *)
(* file, drs.json is fetched first and the diff or error notification has  *)
(* been sent and has settled before the content of the file is fetched;    *)
(* when the reload succeeded, the run for the file is given the newly      *)
(* loaded mapping and resolves its resource identifier in it.              *)
(***************************************************************************)
C23_ReloadBeforeFile ==
  DrsPushedToMain =>
    /\ (\E i \in 1..Len(fetched) : fetched[i] # DrsJson) =>
         /\ fetched[1] = DrsJson
         /\ notifications # << >>
         /\ notifications[1].kind \in {"drs", "drs_error"}
         /\ hookPc \notin {"load", "notify_drs"}
    /\ (caller = "push" /\ notifications[1].kind = "drs") =>
         /\ drMap = repoDrs
         /\ pDrMap = repoDrs
         /\ dataResourceUid \in
              {JsUndefined, PropertyRead(repoDrs[EnvironmentKey(isListsTest)], pName)}
         /\ (pc = "done" /\ authFailStage # "acquire") =>
              (result.kind = "unknownList" <=>
                 ~Truthy(PropertyRead(repoDrs[EnvironmentKey(isListsTest)], pName)))

C23_Witness ==
  /\ DrsPushedToMain
  /\ caller = "push"
  /\ notifications[1].kind = "drs"
  /\ pc = "done"
  /\ result.kind = "unknownList"

(***************************************************************************)
(* Shorthands of the properties of the mapping                             *)
(***************************************************************************)
\* the push handler has finished its reload of drs.json
DrsReloadSettled ==
  /\ hookStatus = 200
  /\ drJsonModified(hookReq.commits)
  /\ hookPc \in {"notify_drs", "fetch", "reload", "notify", "done"}

\* the text denotes a mapping: an object with a prod and a test partition
MappingShaped(file) ==
  /\ ~JsonParse(file).threw
  /\ HasPartition(JsonParse(file).value, "prod")
  /\ HasPartition(JsonParse(file).value, "test")

\* the lookup map[part][name] yields an identifier
Resolvable(map, part, name) ==
  HasPartition(map, part) /\ Truthy(PropertyRead(map[part], name))

Partitions == {"prod", "test"}

(***************************************************************************)
(* C24: when a runtime reload of drs.json fails, the active mapping is the *)
(* mapping of before the push, a failure notification is sent and the      *)
(* process keeps serving; a drs.json that cannot be parsed or does not     *)
(* have the shape of a mapping is such a failure.                          *)
(***************************************************************************)
C24_FailedReloadKeepsMapping ==
  DrsReloadSettled =>
    /\ notifications[1] = DrsErrorNotice => drMap = oldDrMap
    /\ ~MappingShaped(repoDrs) =>
         /\ notifications[1] = DrsErrorNotice
         /\ drMap = oldDrMap
    /\ serverPc \in {"listening", "stopped"}

(***************************************************************************)
(* C25: after a successful reload the active mapping is exactly the        *)
(* content of the new drs.json: the previous mapping is replaced as a      *)
(* whole, and a list name of the previous mapping that the new file does   *)
(* not have is no longer resolvable.                                       *)
(***************************************************************************)
C25_ReplacedAsAWhole ==
  (DrsReloadSettled /\ notifications[1].kind = "drs") =>
    /\ drMap = JsonParse(repoDrs).value
    /\ \A part \in Partitions, name \in ListNames :
         (HasOwn(oldDrMap[part], name) /\
            ~(HasPartition(repoDrs, part) /\ HasOwn(repoDrs[part], name)))
           => ~Resolvable(drMap, part, name)

C25_Witness ==
  /\ DrsReloadSettled
  /\ hookPc = "done"
  /\ notifications[1].kind = "drs"
  /\ repoDrs = OtherDrMap
  /\ Resolvable(oldDrMap, "prod", "Foo")
  /\ ~Resolvable(drMap, "prod", "Foo")

C27_RunKeepsItsMapping ==
  /\ [](caller = "reload" =>
         /\ dataResourceUid # JsUndefined =>
              /\ HasPartition(pDrMap, EnvironmentKey(isListsTest))
              /\ dataResourceUid =
                   PropertyRead(pDrMap[EnvironmentKey(isListsTest)], pName)
         /\ (pc = "done" /\ authFailStage # "acquire") =>
              (result.kind \in {"unknownList", "type"} <=>
                 ~Resolvable(pDrMap, EnvironmentKey(isListsTest), pName)))
  /\ [][caller = "reload" => pDrMap' = pDrMap]_vars

C27_Witness ==
  /\ caller = "reload"
  /\ pc = "done"
  /\ result = NoError
  /\ pDrMap = SampleDrMap
  /\ drMap = OtherDrMap

(***************************************************************************)
(* C28: while the process runs, the active mapping has a prod and a test   *)
(* partition, and no lookup of a run or of a command faults on a missing   *)
(* partition.                                                              *)
(***************************************************************************)
C28_BothPartitionsAlways ==
  serverPc \in {"loading", "listening"} =>
    /\ HasPartition(drMap, "prod")
    /\ HasPartition(drMap, "test")
    /\ thrown # TypeError
    /\ result # TypeError

(***************************************************************************)
(* Shorthands of the properties of the /reload command                     *)
(***************************************************************************)
\* the handler has got past its ack()
Acknowledged == cmdPc \notin {"idle", "ack"}

\* nothing but the acknowledgement has been done for the command
NothingButAck ==
  /\ said = << >>
  /\ messages = << >>
  /\ updates = << >>
  /\ cmdUid = JsUndefined
  /\ ~latestFile.found
  /\ fileContent.isNull
  /\ caller # "reload"

\* the lines that end the handling of a command for a mapped list
TerminalLines == {"nofiles", "dlfailed", "completed", "failed"}

(***************************************************************************)
(* C29: the /reload handler acknowledges the command before anything else: *)
(* until ack() has settled nothing is said, looked up, fetched or started. *)
(* When the argument is empty or only whitespace the one reply is the      *)
(* usage message, and there is no mapping lookup, no source-control        *)
(* request and no pipeline run.                                            *)
(***************************************************************************)
C29_AckThenUsage ==
  /\ ~Acknowledged => NothingButAck /\ listName = ""
  /\ (Acknowledged /\ Trim(cmdText) = << >>) =>
       /\ said = <<"usage">>
       /\ listName = ""
       /\ messages = << >>
       /\ updates = << >>
       /\ cmdUid = JsUndefined
       /\ ~latestFile.found
       /\ fileContent.isNull
       /\ caller # "reload"
       /\ cmdPc \in {"say_final", "done", "rejected"}

C29_Witness ==
  /\ cmdPc = "done"
  /\ cmdText = <<" ", " ">>
  /\ said = <<"usage">>

(***************************************************************************)
(* C30: for a /reload of a mapped list exactly one message is posted with  *)
(* say(); every later line, the terminal success or failure included, is   *)
(* sent as an update that names the channel and the timestamp of that      *)
(* message, and the handler ends only after a terminal line.               *)
(***************************************************************************)
C30_OneMessageUpdatedInPlace ==
  (Acknowledged /\ said # << >> /\ said[1] = "blocks") =>
    /\ said = <<"blocks">>
    /\ Len(updates) = Len(messages) - 1
    /\ updates # << >> => message \in SayResponses
    /\ \A i \in 1..Len(updates) : updates[i] = message
    /\ cmdPc = "done" =>
         /\ messages[Len(messages)].line \in TerminalLines
         /\ shown = messages

C30_Witness ==
  /\ cmdPc = "done"
  /\ said = <<"blocks">>
  /\ Len(updates) = 3
  /\ messages[Len(messages)].line = "completed"

(***************************************************************************)
(* C37: the mapping the /reload handler reads is the mapping the server    *)
(* last loaded: once the server is serving, after the initial load and     *)
(* after every runtime reload, the slack module's mapping equals the       *)
(* server's active mapping, so it is the mapping that was loaded and not   *)
(* the module's initial empty one.                                         *)
(***************************************************************************)
C37_CommandsReadActiveMapping ==
  serverPc = "listening" => slackDrMap = drMap

(***************************************************************************)
(* C36: within one /reload command the identifier the pipeline resolves is *)
(* the one the handler validated and announced at the start of the         *)
(* command: the run resolves the list, and to that identifier, even when a *)
(* push replaces the mapping while the handler awaits the file.            *)
(***************************************************************************)
C36_RunResolvesAnnouncedUid ==
  caller = "reload" =>
    /\ stage # "acquire" => dataResourceUid = cmdUid
    /\ pc = "done" => result.kind \notin {"unknownList", "type"}

(***************************************************************************)
(* C39: a /reload run whose pipeline completed successfully is never       *)
(* reported as failed: once reloadList has resolved, neither the lines     *)
(* held for the progress message nor the message as written include the    *)
(* failure line, even if a chat update call fails.                         *)
(***************************************************************************)
C39_SuccessNeverReportedFailed ==
  (caller = "reload" /\ pc = "done" /\ result = NoError) =>
    /\ \A i \in 1..Len(messages) : messages[i].line # "failed"
    /\ \A i \in 1..Len(shown) : shown[i].line # "failed"

\* the entries of the listing that are files named *.csv or *.csv.gz
CsvCandidates ==
  {i \in DOMAIN listing.entries :
     /\ listing.entries[i].type = "file"
     /\ \/ EndsWithExtension(listing.entries[i], <<"csv">>)
        \/ EndsWithExtension(listing.entries[i], <<"csv", "gz">>)}

(***************************************************************************)
(* C33: findLatestFileForList returns, among the entries of the list's     *)
(* folder that are files named *.csv or *.csv.gz, the one whose name is    *)
(* greatest in the order of names (the order localeCompare gives); it      *)
(* returns null exactly when there is no such entry, when the path is not  *)
(* a directory, or when the listing fails.                                 *)
(***************************************************************************)
C33_LatestCsvFile ==
  (fnPc = "returned" /\ listing # NoListing) =>
    IF listing.kind # "array" \/ CsvCandidates = {}
    THEN returned = JsNull
    ELSE /\ returned # JsNull
         /\ \E i \in CsvCandidates :
              /\ returned.name = listing.entries[i].name
              /\ returned.path = listing.entries[i].path
         /\ \A j \in CsvCandidates :
              localeCompare(listing.entries[j].name, returned.name) <= 0

\* the latest of two files is returned although a directory with a later
\* name ends in .csv and the listing has the latest file first
C33_Witness ==
  /\ fnPc = "returned"
  /\ listing.kind = "array"
  /\ Len(listing.entries) = 3
  /\ listing.entries[1] = Entry("file", <<"2025-01-02", "csv", "gz">>)
  /\ listing.entries[2] = Entry("dir", <<"B", "csv">>)
  /\ listing.entries[3] = Entry("file", <<"2025-01-01", "csv">>)
  /\ returned # JsNull
  /\ returned.name = <<"2025-01-02", "csv", "gz">>

\* the download requested by the call, if any
DownloadsMade == {i \in DOMAIN requests : requests[i].op = "download"}

\* the bytes the call had to decode: inline, or downloaded
DecodedBytes ==
  IF DownloadsMade = {} THEN response.content.bytes
  ELSE requests[2].answer.body

(***************************************************************************)
(* C35: getFileContent never raises.  It returns null when the entry is a  *)
(* directory, when neither inline content nor a download URL is available, *)
(* when the contents request fails, when the download fails or is answered *)
(* with an error status, and when a .csv.gz file cannot be decompressed;   *)
(* the download URL is requested only when inline content is absent.       *)
(***************************************************************************)
C35_NullNeverRaises ==
  (fnPc = "returned" /\ response # NoContents) =>
    /\ returned # JsRaised
    /\ returned = JsNull \/ returned.t = "str"
    /\ response.kind \in {"array", "error"} => returned = JsNull
    /\ (~InlineAvailable(response) /\ ~response.download_url) => returned = JsNull
    /\ \A i \in DownloadsMade :
         /\ ~InlineAvailable(response)
         /\ requests[i].answer.outcome # "ok" => returned = JsNull
    /\ (EndsWithExtension(response.path, <<"csv", "gz">>) /\ ~DecodedBytes.gzip) =>
         returned = JsNull
    /\ returned # JsNull => returned = JsString("rows") \/ DecodedBytes.gzip

\* a .csv.gz without inline content was downloaded and the body was not
\* gzip data: null is returned
C35_Witness ==
  /\ fnPc = "returned"
  /\ response.path = FooCsvGz
  /\ response.kind = "object"
  /\ response.type = "file"
  /\ response.hasContent
  /\ response.content.spaces
  /\ Len(requests) = 2
  /\ requests[2].answer = [outcome |-> "ok", body |-> PlainBytes]
  /\ returned = JsNull

\* the timestamps supplied in the text: the pieces between the commas that
\* are not empty, without the blanks around them
SuppliedTimeStamps(text) ==
  LET pieces == SplitComma(text)
      trimmed == [i \in DOMAIN pieces |-> Trim(pieces[i])]
  IN  SelectSeq(trimmed, LAMBDA piece : piece # << >>)

(***************************************************************************)
(* C34: the /clean command issues a delete request for exactly the         *)
(* timestamps supplied in its comma-separated argument, one request for    *)
(* each, all of them issued whether or not another one fails, and no       *)
(* delete request at all when no timestamp is supplied.                    *)
(***************************************************************************)
C34_DeletesExactlySupplied ==
  /\ cleanPc \in {"deleting", "done"} =>
       [i \in DOMAIN deletes |-> deletes[i].ts] = SuppliedTimeStamps(cleanText)
  /\ cleanPc \in {"idle", "ack"} => deletes = << >>

\* every delivery has been handled to its end and loaded its revision
AllDeliveriesLoaded ==
  /\ Len(deliveries) = MaxDeliveries
  /\ \A k \in DOMAIN deliveries : deliveries[k].pc = "done"

(***************************************************************************)
(* C38: when push deliveries that change drs.json are handled              *)
(* concurrently and each has loaded its revision, the active mapping after *)
(* all of them have finished is the one of the revision delivered last: a  *)
(* reload that started earlier and finished later does not overwrite it.   *)
(***************************************************************************)
C38_LaterDeliveryWins ==
  AllDeliveriesLoaded =>
    drMap = JsonParse(deliveries[Len(deliveries)].file).value

\* the handler has posted the message for the selected file
PushAnnounced ==
  /\ notifications # << >>
  /\ hookPc \in {"fetch", "update_start", "update_failed", "rejected", "done"}

(***************************************************************************)
(* C31: for the file selected from a push the handler sends one message    *)
(* and reports every later step of the run, the terminal outcome included, *)
(* by updating that message through the handle its sending returned: once  *)
(* the message is posted the handler holds its handle, posts no further    *)
(* message and does not end without the terminal update.                   *)
(***************************************************************************)
C31_PushUpdatesOneMessage ==
  PushAnnounced =>
    /\ Len(notifications) = 1
    /\ pushMessage # JsUndefined
    /\ hookPc # "rejected"

\* a file of a list's folder was selected from the push
MonitoredFileSelected ==
  /\ importedGoogleSheetsAdded # << >>
  /\ Truthy(getParentFolderName(importedGoogleSheetsAdded[1]))

\* the report that ends a run: the success or the failure line
TerminalReports ==
  {i \in DOMAIN notifications :
     /\ notifications[i].kind = "blocks"
     /\ notifications[i].lines[Len(notifications[i].lines)].line
          \in {"completed", "failed"}}

(***************************************************************************)
(* C32: every run the webhook starts for a selected monitored file ends    *)
(* with a terminal report to the channel: a failure report when the        *)
(* content is unavailable, when the list has no mapping entry or when a    *)
(* stage fails, a success report otherwise; the handler never ends for     *)
(* such a file without a report.                                           *)
(***************************************************************************)
C32_EveryRunEndsReported ==
  (MonitoredFileSelected /\ hookPc \in {"done", "rejected"}) =>
    TerminalReports # {}

=============================================================================
